---------------------------- MODULE Spec2Model ----------------------------
(***************************************************************************)
(* Echoflare ground-station toolkit: AX.25 UI framing (ax25.py), the       *)
(* telemetry / telecommand codec (proto.py), the G3RUH/HDLC modem          *)
(* (modem_g3ruh.py) and the command front-ends (cli.py, mission_cli.py).   *)
(*                                                                         *)
(* Conventions of the model                                                *)
(*   bytes      a sequence of integers 0..255                              *)
(*   str        a sequence of code points                                  *)
(*   bits       a sequence of 0/1                                          *)
(*   a call     returns [ok |-> TRUE, val |-> v] or, when the Python code  *)
(*              raises, [ok |-> FALSE, err |-> kind]                       *)
(*   wide ints  TLC integers are 32 bits wide, so a Python integer that    *)
(*              may exceed 2^31-1 is carried as big-endian 16-bit limbs:   *)
(*              <<hi, lo>> stands for hi*65536 + lo (lo in 0..65535)       *)
(***************************************************************************)
EXTENDS Integers, Sequences, FiniteSets, TLC

VARIABLES
    pc,     \* position of the running operation
    args,   \* the arguments the operation was called with
    ret     \* what the operation has returned (or raised) so far

vars == <<pc, args, ret>>

Ok(v) == [ok |-> TRUE, val |-> v]
Err(e) == [ok |-> FALSE, err |-> e]

None == "None"

(***************************************************************************)
(* Integer and sequence helpers (Python built-ins used by the sources)     *)
(***************************************************************************)
IsByte(b) == b \in 0..255

RECURSIVE BitXor(_, _)
BitXor(a, b) ==
    IF a = 0 THEN b
    ELSE IF b = 0 THEN a
    ELSE (((a % 2) + (b % 2)) % 2) + 2 * BitXor(a \div 2, b \div 2)

RECURSIVE BitAnd(_, _)
BitAnd(a, b) ==
    IF a = 0 \/ b = 0 THEN 0
    ELSE ((a % 2) * (b % 2)) + 2 * BitAnd(a \div 2, b \div 2)

BitOr(a, b) == a + b - BitAnd(a, b)

\* the concatenation of ss[lo], ..., ss[hi]
RECURSIVE ConcatRange(_, _, _)
ConcatRange(ss, lo, hi) ==
    IF lo > hi THEN <<>>
    ELSE IF lo = hi THEN ss[lo]
    ELSE LET mid == (lo + hi) \div 2
         IN ConcatRange(ss, lo, mid) \o ConcatRange(ss, mid + 1, hi)

Concat(ss) == ConcatRange(ss, 1, Len(ss))

Slice(s, from, to) ==  \* Python s[from:to], 0-based, clamped
    LET f == IF from < 0 THEN 0 ELSE from
        t == IF to > Len(s) THEN Len(s) ELSE to
    IN IF t <= f THEN <<>> ELSE SubSeq(s, f + 1, t)

Repeat(x, n) == [i \in 1..n |-> x]

(***************************************************************************)
(* ax25.py                                                                 *)
(***************************************************************************)
AX25_CONTROL_UI == 3
AX25_PID_NO_LAYER3 == 240

\* str.upper() of one character: a-z fold to A-Z; U+00DF expands to "SS";
\* U+00E9 folds to U+00C9; every other character of the model's alphabet
\* (digits, space, A-Z) is its own upper case.
UpperChar(c) ==
    IF c \in 97..122 THEN <<c - 32>>
    ELSE IF c = 223 THEN <<83, 83>>
    ELSE IF c = 233 THEN <<201>>
    ELSE <<c>>

Upper(s) == Concat([i \in 1..Len(s) |-> UpperChar(s[i])])

\* str.ljust(width): pad with spaces on the right, never truncate
Ljust(s, width) == IF Len(s) >= width THEN s ELSE s \o Repeat(32, width - Len(s))

\* str.rstrip(" ")
RECURSIVE RstripSpace(_)
RstripSpace(s) ==
    IF s # <<>> /\ s[Len(s)] = 32 THEN RstripSpace(SubSeq(s, 1, Len(s) - 1)) ELSE s

\* str.encode("ascii") raises UnicodeEncodeError on a code point above 127
IsAscii(s) == \A i \in 1..Len(s) : s[i] \in 0..127

AX25Address(callsign, ssid) == [callsign |-> callsign, ssid |-> ssid]

\* faulty variant: the length test is off by one (>= 6 instead of > 6)
AX25Address_encode_Len6(self, last) ==
    LET callsign == Upper(self.callsign) IN
    IF Len(callsign) >= 6 THEN Err("ValueError: callsign too long")
    ELSE IF ~(0 <= self.ssid /\ self.ssid <= 15) THEN Err("ValueError: SSID must be 0..15")
    ELSE IF ~IsAscii(Ljust(callsign, 6)) THEN Err("UnicodeEncodeError")
    ELSE LET call_bytes == Ljust(callsign, 6)
             shifted == [i \in 1..Len(call_bytes) |-> BitAnd(call_bytes[i], 127) * 2]
             ssid_byte == BitOr(BitOr(96, BitAnd(self.ssid, 15) * 2), IF last THEN 1 ELSE 0)
         IN Ok(shifted \o <<ssid_byte>>)

AX25Address_encode(self, last) ==
    LET callsign == Upper(self.callsign) IN
    IF Len(callsign) > 6 THEN Err("ValueError: callsign too long")
    ELSE IF ~(0 <= self.ssid /\ self.ssid <= 15) THEN Err("ValueError: SSID must be 0..15")
    ELSE IF ~IsAscii(Ljust(callsign, 6)) THEN Err("UnicodeEncodeError")
    ELSE LET call_bytes == Ljust(callsign, 6)
             shifted == [i \in 1..Len(call_bytes) |-> BitAnd(call_bytes[i], 127) * 2]
             ssid_byte == BitOr(BitOr(96, BitAnd(self.ssid, 15) * 2), IF last THEN 1 ELSE 0)
         IN Ok(shifted \o <<ssid_byte>>)

\* faulty variant: the padding is not stripped from the decoded callsign
AX25Address_decode_NoStrip(addr7) ==
    IF Len(addr7) # 7 THEN Err("ValueError: address must be 7 bytes")
    ELSE LET call == [i \in 1..6 |-> BitAnd(addr7[i] \div 2, 127)]
             ssid == BitAnd(addr7[7] \div 2, 15)
         IN Ok([callsign |-> call, ssid |-> ssid])

AX25Address_decode(addr7) ==
    IF Len(addr7) # 7 THEN Err("ValueError: address must be 7 bytes")
    ELSE LET call == [i \in 1..6 |-> BitAnd(addr7[i] \div 2, 127)]
             callsign == RstripSpace(call)
             ssid == BitAnd(addr7[7] \div 2, 15)
         IN Ok(AX25Address(callsign, ssid))

AX25Address_is_last(addr7) ==
    IF Len(addr7) # 7 THEN Err("ValueError: address must be 7 bytes")
    ELSE Ok(BitAnd(addr7[7], 1) # 0)

AX25Frame(destination, source, control, pid, payload) ==
    [destination |-> destination, source |-> source,
     control |-> control, pid |-> pid, payload |-> payload]

\* faulty variant: the last-address bit is put on the destination instead of the source
AX25Frame_encode_LastOnDst(self) ==
    LET d == AX25Address_encode(self.destination, TRUE) IN
    IF ~d.ok THEN d
    ELSE LET s == AX25Address_encode(self.source, FALSE) IN
         IF ~s.ok THEN s
         ELSE IF ~(IsByte(self.control) /\ IsByte(self.pid))
              THEN Err("ValueError: bytes must be in range(0, 256)")
              ELSE Ok(d.val \o s.val \o <<self.control, self.pid>> \o self.payload)

\* header = destination.encode(last=False) + source.encode(last=True)
\*          + bytes([control, pid]); operands are evaluated left to right and
\* bytes([...]) raises ValueError for an element outside range(256)
AX25Frame_encode(self) ==
    LET d == AX25Address_encode(self.destination, FALSE) IN
    IF ~d.ok THEN d
    ELSE LET s == AX25Address_encode(self.source, TRUE) IN
         IF ~s.ok THEN s
         ELSE IF ~(IsByte(self.control) /\ IsByte(self.pid))
              THEN Err("ValueError: bytes must be in range(0, 256)")
              ELSE Ok(d.val \o s.val \o <<self.control, self.pid>> \o self.payload)

\* faulty variant: the last-address bit is tested before the length
AX25Frame_decode_LastFirst(raw) ==
    IF Len(raw) >= 14 /\ BitAnd(raw[14], 1) = 0
    THEN Err("ValueError: source address not marked last")
    ELSE IF Len(raw) < 7 + 7 + 2 THEN Err("ValueError: Frame too short to be AX.25")
    ELSE LET dst == AX25Address_decode(Slice(raw, 0, 7))
             src == AX25Address_decode(Slice(raw, 7, 14))
         IN Ok([destination |-> dst.val, source |-> src.val, control |-> raw[15],
                pid |-> raw[16], payload |-> Slice(raw, 16, Len(raw))])

AX25Frame_decode(raw) ==
    IF Len(raw) < 7 + 7 + 2 THEN Err("ValueError: Frame too short to be AX.25")
    ELSE LET dst7 == Slice(raw, 0, 7)
             src7 == Slice(raw, 7, 14)
             last == AX25Address_is_last(src7)
         IN IF ~last.ok THEN last
            ELSE IF ~last.val THEN Err("ValueError: source address not marked last")
            ELSE LET control == raw[15]
                     pid == raw[16]
                     payload == Slice(raw, 16, Len(raw))
                     dst == AX25Address_decode(dst7)
                     src == AX25Address_decode(src7)
                 IN IF ~dst.ok THEN dst
                    ELSE IF ~src.ok THEN src
                    ELSE Ok(AX25Frame(dst.val, src.val, control, pid, payload))

(***************************************************************************)
(* proto.py: readers                                                       *)
(***************************************************************************)
DecodeError_Truncated == "DecodeError: Truncated payload"
DecodeError_NotTL == "DecodeError: Not a TL telemetry packet"

\* faulty variant: the bound test is >= instead of >
take_OffByOne(buf, offset, n) ==
    LET end == offset + n IN
    IF end >= Len(buf) THEN Err(DecodeError_Truncated)
    ELSE Ok(<<Slice(buf, offset, end), end>>)

\* _take returns (chunk, new offset)
take(buf, offset, n) ==
    LET end == offset + n IN
    IF end > Len(buf) THEN Err(DecodeError_Truncated)
    ELSE Ok(<<Slice(buf, offset, end), end>>)

\* two's complement value of a 16-bit quantity
Signed16(u) == IF u >= 32768 THEN u - 65536 ELSE u

read_u8(buf, offset) ==
    LET t == take(buf, offset, 1) IN
    IF ~t.ok THEN t ELSE Ok(<<t.val[1][1], t.val[2]>>)

read_u16be(buf, offset) ==
    LET t == take(buf, offset, 2) IN
    IF ~t.ok THEN t ELSE Ok(<<t.val[1][1] * 256 + t.val[1][2], t.val[2]>>)

\* faulty variant: the four bytes are read little-endian
read_u32be_LittleEndian(buf, offset) ==
    LET t == take(buf, offset, 4) IN
    IF ~t.ok THEN t
    ELSE LET c == t.val[1]
         IN Ok(<< <<c[4] * 256 + c[3], c[2] * 256 + c[1]>>, t.val[2] >>)

\* struct.unpack(">I"): the value as limbs <<hi, lo>> = hi*65536 + lo
read_u32be(buf, offset) ==
    LET t == take(buf, offset, 4) IN
    IF ~t.ok THEN t
    ELSE LET c == t.val[1]
         IN Ok(<< <<c[1] * 256 + c[2], c[3] * 256 + c[4]>>, t.val[2] >>)

read_i16be(buf, offset) ==
    LET t == take(buf, offset, 2) IN
    IF ~t.ok THEN t ELSE Ok(<<Signed16(t.val[1][1] * 256 + t.val[1][2]), t.val[2]>>)

\* struct.unpack(">q"): the value as limbs <<l3, l2, l1, l0>> =
\* l3*2^48 + l2*2^32 + l1*2^16 + l0, the top limb carrying the sign
read_i64be(buf, offset) ==
    LET t == take(buf, offset, 8) IN
    IF ~t.ok THEN t
    ELSE LET c == t.val[1]
         IN Ok(<< <<Signed16(c[1] * 256 + c[2]), c[3] * 256 + c[4],
                    c[5] * 256 + c[6], c[7] * 256 + c[8]>>, t.val[2] >>)

\* bytes.decode("utf-8", errors="strict"): the code points, or a
\* UnicodeDecodeError (overlong forms, surrogates and values above U+10FFFF
\* are rejected)
IsCont(b, i) == i <= Len(b) /\ b[i] \in 128..191

RECURSIVE Utf8Decode(_, _)
Utf8Decode(b, i) ==
    IF i > Len(b) THEN Ok(<<>>)
    ELSE LET c == b[i]
             w == IF c < 128 THEN 1
                  ELSE IF c \in 194..223 /\ IsCont(b, i + 1) THEN 2
                  ELSE IF /\ c \in 224..239 /\ IsCont(b, i + 1) /\ IsCont(b, i + 2)
                          /\ (c = 224 => b[i + 1] >= 160)
                          /\ (c = 237 => b[i + 1] < 160) THEN 3
                  ELSE IF /\ c \in 240..244
                          /\ IsCont(b, i + 1) /\ IsCont(b, i + 2) /\ IsCont(b, i + 3)
                          /\ (c = 240 => b[i + 1] >= 144)
                          /\ (c = 244 => b[i + 1] < 144) THEN 4
                  ELSE 0
             cp == IF w = 1 THEN c
                   ELSE IF w = 2 THEN (c - 192) * 64 + (b[i + 1] - 128)
                   ELSE IF w = 3 THEN (c - 224) * 4096 + (b[i + 1] - 128) * 64 + (b[i + 2] - 128)
                   ELSE (c - 240) * 262144 + (b[i + 1] - 128) * 4096
                        + (b[i + 2] - 128) * 64 + (b[i + 3] - 128)
         IN IF w = 0 THEN Err("UnicodeDecodeError")
            ELSE LET rest == Utf8Decode(b, i + w)
                 IN IF ~rest.ok THEN rest ELSE Ok(<<cp>> \o rest.val)

\* bytes.decode("latin1"): every byte is its own code point
Latin1Decode(b) == b

read_lp_string(buf, offset) ==
    LET n == read_u8(buf, offset) IN
    IF ~n.ok THEN n
    ELSE LET t == take(buf, n.val[2], n.val[1]) IN
         IF ~t.ok THEN t
         ELSE LET u == Utf8Decode(t.val[1], 1)
              IN IF u.ok THEN Ok(<<u.val, t.val[2]>>)
                 ELSE Ok(<<Latin1Decode(t.val[1]), t.val[2]>>)

\* str.encode("utf-8") of a string of code points below U+0800
Utf8Encode(str) ==
    Concat([i \in 1..Len(str) |->
               IF str[i] < 128 THEN <<str[i]>>
               ELSE <<192 + (str[i] \div 64), 128 + (str[i] % 64)>>])

write_lp_string(str) ==
    LET data == Utf8Encode(str) IN
    IF Len(data) > 255 THEN Err("ValueError: String too long for length-prefixed encoding")
    ELSE Ok(<<Len(data)>> \o data)

(***************************************************************************)
(* proto.py: telemetry                                                     *)
(***************************************************************************)
PACKET_TYPE_TL == 21580     \* 0x544C

\* The reads of decode_telemetry in order; the first one that raises ends
\* the call. temperature_c = temp_raw / 10.0 is kept as the pair
\* <<temp_raw, 10>>.
decode_telemetry(payload) ==
    LET buf == payload
        packet_type == read_u16be(buf, 0)
    IN
    IF ~packet_type.ok THEN packet_type
    ELSE IF packet_type.val[1] # PACKET_TYPE_TL THEN Err(DecodeError_NotTL)
    ELSE
    LET sequence == read_u32be(buf, packet_type.val[2]) IN
    IF ~sequence.ok THEN sequence ELSE
    LET timestamp == read_i64be(buf, sequence.val[2]) IN
    IF ~timestamp.ok THEN timestamp ELSE
    LET uptime == read_u32be(buf, timestamp.val[2]) IN
    IF ~uptime.ok THEN uptime ELSE
    LET boot_count == read_u32be(buf, uptime.val[2]) IN
    IF ~boot_count.ok THEN boot_count ELSE
    LET restart_reason == read_u8(buf, boot_count.val[2]) IN
    IF ~restart_reason.ok THEN restart_reason ELSE
    LET mode == read_u8(buf, restart_reason.val[2]) IN
    IF ~mode.ok THEN mode ELSE
    LET flags == read_u8(buf, mode.val[2]) IN
    IF ~flags.ok THEN flags ELSE
    LET v0 == read_u16be(buf, flags.val[2]) IN
    IF ~v0.ok THEN v0 ELSE
    LET v1 == read_u16be(buf, v0.val[2]) IN
    IF ~v1.ok THEN v1 ELSE
    LET v2 == read_u16be(buf, v1.val[2]) IN
    IF ~v2.ok THEN v2 ELSE
    LET c0 == read_u16be(buf, v2.val[2]) IN
    IF ~c0.ok THEN c0 ELSE
    LET c1 == read_u16be(buf, c0.val[2]) IN
    IF ~c1.ok THEN c1 ELSE
    LET c2 == read_u16be(buf, c1.val[2]) IN
    IF ~c2.ok THEN c2 ELSE
    LET temp_raw == read_i16be(buf, c2.val[2]) IN
    IF ~temp_raw.ok THEN temp_raw ELSE
    LET motd == read_lp_string(buf, temp_raw.val[2]) IN
    IF ~motd.ok THEN motd ELSE
    Ok([sequence |-> sequence.val[1],
        timestamp |-> timestamp.val[1],
        uptime |-> uptime.val[1],
        boot_count |-> boot_count.val[1],
        restart_reason |-> restart_reason.val[1],
        mode |-> mode.val[1],
        flags |-> flags.val[1],
        battery_voltages_mv |-> <<v0.val[1], v1.val[1], v2.val[1]>>,
        battery_currents_ma |-> <<c0.val[1], c1.val[1], c2.val[1]>>,
        temperature_c |-> <<temp_raw.val[1], 10>>,
        motd |-> motd.val[1]])

(***************************************************************************)
(* proto.py: telecommands                                                  *)
(***************************************************************************)
\* bytes.fromhex(HMAC_KEY_HEX)
HMAC_KEY ==
    <<19, 217, 66, 221, 212, 221, 67, 237, 83, 148, 3, 146, 88, 199, 180, 194,
      167, 48, 184, 186, 31, 76, 199, 181, 221, 36, 195, 175, 98, 52, 40, 228>>

\* hmac.new(key, msg, sha256).digest(), idealised: a keyed 32-byte function
\* that is injective on the messages of the model (at most 31 bytes), standing
\* for HMAC-SHA-256 with collisions excluded. The message and its length are
\* laid out in 32 bytes and masked with the key.
hmac_sha256(key, msg) ==
    LET block == <<Len(msg) % 256>> \o msg
    IN [i \in 1..32 |-> BitXor(key[i], IF i <= Len(block) THEN block[i] ELSE 0)]

\* hmac.compare_digest(a, b)
compare_digest(a, b) == a = b

\* faulty variant: the fields are packed little-endian ("<HI")
pack_HI_LittleEndian(command_type, sequence) ==
    <<command_type % 256, command_type \div 256,
      sequence[2] % 256, sequence[2] \div 256,
      sequence[1] % 256, sequence[1] \div 256>>

\* struct.pack(">HI", command_type, sequence); sequence is <<hi, lo>>
pack_HI(command_type, sequence) ==
    <<command_type \div 256, command_type % 256,
      sequence[1] \div 256, sequence[1] % 256,
      sequence[2] \div 256, sequence[2] % 256>>

\* 0 <= sequence <= 0xFFFFFFFF for sequence = <<hi, lo>>, lo in 0..65535
FitsUint32(w) == 0 <= w[1] /\ w[1] <= 65535

build_telecommand(command_type, sequence, payload) ==
    IF ~(0 <= command_type /\ command_type <= 65535)
    THEN Err("ValueError: command_type must fit uint16")
    ELSE IF ~FitsUint32(sequence) THEN Err("ValueError: sequence must fit uint32")
    ELSE LET body == pack_HI(command_type, sequence) \o payload
             mac == hmac_sha256(HMAC_KEY, body)
         IN Ok(body \o mac)

CMD_SET_MOTD == 21760     \* 0x5500
CMD_SSTV == 21811         \* 0x5533

build_set_motd(sequence, motd) ==
    LET lp == write_lp_string(motd) IN
    IF ~lp.ok THEN lp ELSE build_telecommand(CMD_SET_MOTD, sequence, lp.val)

build_sstv(sequence) == build_telecommand(CMD_SSTV, sequence, <<>>)

\* faulty variant: only the first 31 bytes of the tag are compared
verify_telecommand_ShortCompare(packet) ==
    IF Len(packet) < 2 + 4 + 32 THEN "Telecommand too short"
    ELSE LET body == Slice(packet, 0, Len(packet) - 32)
             sig == Slice(packet, Len(packet) - 32, Len(packet))
             expected == hmac_sha256(HMAC_KEY, body)
         IN IF ~compare_digest(SubSeq(sig, 1, 31), SubSeq(expected, 1, 31))
            THEN "Bad HMAC" ELSE None

\* faulty variant: the length test lets a 37-byte packet through
verify_telecommand_Short37(packet) ==
    IF Len(packet) < 2 + 4 + 31 THEN "Telecommand too short"
    ELSE LET body == Slice(packet, 0, Len(packet) - 32)
             sig == Slice(packet, Len(packet) - 32, Len(packet))
             expected == hmac_sha256(HMAC_KEY, body)
         IN IF ~compare_digest(sig, expected) THEN "Bad HMAC" ELSE None

\* the messages verify_telecommand passes to hmac.new, in order: none when the
\* length test returns first
verify_telecommand_macs(packet) ==
    IF Len(packet) < 2 + 4 + 32 THEN <<>>
    ELSE <<Slice(packet, 0, Len(packet) - 32)>>

\* returns None, or the error as a string
verify_telecommand(packet) ==
    IF Len(packet) < 2 + 4 + 32 THEN "Telecommand too short"
    ELSE LET body == Slice(packet, 0, Len(packet) - 32)
             sig == Slice(packet, Len(packet) - 32, Len(packet))
             expected == hmac_sha256(HMAC_KEY, body)
         IN IF ~compare_digest(sig, expected) THEN "Bad HMAC" ELSE None

(***************************************************************************)
(* modem_g3ruh.py: bit utilities and CRC                                   *)
(***************************************************************************)
AX25_FLAG == 126        \* 0x7E

Pow2(n) == IF n = 0 THEN 1 ELSE IF n = 1 THEN 2 ELSE IF n = 2 THEN 4
           ELSE IF n = 3 THEN 8 ELSE IF n = 4 THEN 16 ELSE IF n = 5 THEN 32
           ELSE IF n = 6 THEN 64 ELSE 128

\* faulty variant: the reflected CRC-16/ARC polynomial 0xA001 (40961)
crc16_bit_PolyA001(crc) ==
    IF BitAnd(crc, 1) # 0 THEN BitXor(crc \div 2, 40961) ELSE crc \div 2

\* one pass of the inner loop of crc16_x25: 0x8408 is 33800
crc16_bit(crc) ==
    IF BitAnd(crc, 1) # 0 THEN BitXor(crc \div 2, 33800) ELSE crc \div 2

\* the inner loop of crc16_x25: k shifts of the register
RECURSIVE crc16_shift(_, _)
crc16_shift(crc, k) ==
    IF k = 0 THEN crc ELSE crc16_bit(crc16_shift(crc, k - 1))

\* the outer loop of crc16_x25 over the bytes lo..hi (1-based), with the
\* loop's variables i and crc in a record; the range is split in halves so
\* that the evaluation depth stays logarithmic in the length of data
RECURSIVE crc16_bytes(_, _, _, _)
crc16_bytes(data, lo, hi, st) ==
    IF st.i > hi THEN st
    ELSE IF lo = hi
         THEN [i |-> st.i + 1, crc |-> crc16_shift(BitXor(st.crc, data[st.i]), 8)]
    ELSE LET mid == (lo + hi) \div 2
         IN crc16_bytes(data, mid + 1, hi, crc16_bytes(data, lo, mid, st))

\* (~crc) & 0xFFFF of a 16-bit crc is 0xFFFF - crc
crc16_x25(data) == 65535 - crc16_bytes(data, 1, Len(data), [i |-> 1, crc |-> 65535]).crc

bytes_to_bits_lsb_first(data) ==
    [k \in 1..(8 * Len(data)) |->
        (data[((k - 1) \div 8) + 1] \div Pow2((k - 1) % 8)) % 2]

\* a trailing group of fewer than 8 bits is dropped
bits_to_bytes_lsb_first(bits) ==
    [j \in 1..(Len(bits) \div 8) |->
        LET b(i) == (bits[8 * (j - 1) + i + 1] % 2) * Pow2(i)
        IN b(0) + b(1) + b(2) + b(3) + b(4) + b(5) + b(6) + b(7)]

\* The loops over a bit sequence carry the loop's variables, the index i
\* (1-based here) among them, in a record; X_loop(bits, lo, hi, st) runs the
\* loop body while i is in lo..hi.  The range is split in halves so that the
\* evaluation depth stays logarithmic in the length of the sequence.

\* faulty variant: the 0 is inserted after six ones
bitstuff_step_AfterSix(bits, st) ==
    LET bit == bits[st.i] % 2
    IN IF bit = 1
       THEN IF st.ones + 1 = 6
            THEN [i |-> st.i + 1, ones |-> 0, out |-> st.out \o <<bit, 0>>]
            ELSE [i |-> st.i + 1, ones |-> st.ones + 1, out |-> Append(st.out, bit)]
       ELSE [i |-> st.i + 1, ones |-> 0, out |-> Append(st.out, bit)]

\* body of the for loop of bitstuff
bitstuff_step(bits, st) ==
    LET bit == bits[st.i] % 2
    IN IF bit = 1
       THEN IF st.ones + 1 = 5
            THEN [i |-> st.i + 1, ones |-> 0, out |-> st.out \o <<bit, 0>>]
            ELSE [i |-> st.i + 1, ones |-> st.ones + 1, out |-> Append(st.out, bit)]
       ELSE [i |-> st.i + 1, ones |-> 0, out |-> Append(st.out, bit)]

RECURSIVE bitstuff_loop(_, _, _, _)
bitstuff_loop(bits, lo, hi, st) ==
    IF st.i > hi THEN st
    ELSE IF lo = hi THEN bitstuff_step(bits, st)
    ELSE LET mid == (lo + hi) \div 2
         IN bitstuff_loop(bits, mid + 1, hi, bitstuff_loop(bits, lo, mid, st))

bitstuff(bits) ==
    bitstuff_loop(bits, 1, Len(bits), [i |-> 1, ones |-> 0, out |-> <<>>]).out

\* faulty variant: the bit after five ones is never skipped
bitunstuff_step_NoSkip(bits, st) ==
    LET bit == bits[st.i]
    IN IF bit = 1
       THEN IF st.ones + 1 = 5
            THEN [i |-> st.i + 1, ones |-> 0, out |-> Append(st.out, bit)]
            ELSE [i |-> st.i + 1, ones |-> st.ones + 1, out |-> Append(st.out, bit)]
       ELSE [i |-> st.i + 1, ones |-> 0, out |-> Append(st.out, bit)]

\* body of the while loop of bitunstuff; after five ones a following 0 is
\* skipped by the extra i += 1
bitunstuff_step(bits, st) ==
    LET bit == bits[st.i]
    IN IF bit = 1
       THEN IF st.ones + 1 = 5
            THEN [i |-> IF st.i + 1 <= Len(bits) /\ bits[st.i + 1] = 0
                        THEN st.i + 2 ELSE st.i + 1,
                  ones |-> 0, out |-> Append(st.out, bit)]
            ELSE [i |-> st.i + 1, ones |-> st.ones + 1, out |-> Append(st.out, bit)]
       ELSE [i |-> st.i + 1, ones |-> 0, out |-> Append(st.out, bit)]

RECURSIVE bitunstuff_loop(_, _, _, _)
bitunstuff_loop(bits, lo, hi, st) ==
    IF st.i > hi THEN st
    ELSE IF lo = hi THEN bitunstuff_step(bits, st)
    ELSE LET mid == (lo + hi) \div 2
         IN bitunstuff_loop(bits, mid + 1, hi, bitunstuff_loop(bits, lo, mid, st))

bitunstuff(bits) ==
    bitunstuff_loop(bits, 1, Len(bits), [i |-> 1, ones |-> 0, out |-> <<>>]).out

\* 1 where a level equals the one before it, 0 where it differs
nrzi_decode(levels) ==
    IF levels = <<>> THEN <<>>
    ELSE [k \in 1..(Len(levels) - 1) |-> IF levels[k + 1] = levels[k] THEN 1 ELSE 0]

\* faulty variant: the level changes on a 1 bit
nrzi_encode_step_FlipOnOne(bits, st) ==
    LET level == IF bits[st.i] % 2 = 1 THEN BitXor(st.level, 1) ELSE st.level
    IN [i |-> st.i + 1, level |-> level, out |-> Append(st.out, level)]

\* body of the for loop of nrzi_encode
nrzi_encode_step(bits, st) ==
    LET level == IF bits[st.i] % 2 = 0 THEN BitXor(st.level, 1) ELSE st.level
    IN [i |-> st.i + 1, level |-> level, out |-> Append(st.out, level)]

RECURSIVE nrzi_encode_loop(_, _, _, _)
nrzi_encode_loop(bits, lo, hi, st) ==
    IF st.i > hi THEN st
    ELSE IF lo = hi THEN nrzi_encode_step(bits, st)
    ELSE LET mid == (lo + hi) \div 2
         IN nrzi_encode_loop(bits, mid + 1, hi, nrzi_encode_loop(bits, lo, mid, st))

nrzi_encode(bits, initial_level) ==
    LET level == BitAnd(initial_level, 1)
    IN nrzi_encode_loop(bits, 1, Len(bits),
                        [i |-> 1, level |-> level, out |-> <<level>>]).out

(***************************************************************************)
(* modem_g3ruh.py: G3RUH scrambler                                         *)
(***************************************************************************)
\* ((lfsr << 1) | b) & 0x1FFFF for a 17-bit lfsr and a bit b
lfsr_shift(lfsr, b) == (lfsr * 2 + b) % 131072

\* ((lfsr >> 16) ^ (lfsr >> 11)) & 1
lfsr_tap(lfsr) == BitXor((lfsr \div 65536) % 2, (lfsr \div 2048) % 2)

\* faulty variant: the register takes the input bit for either variant
g3ruh_step_ShiftInput(bits, variant, st) ==
    LET b == bits[st.i] % 2
        out == BitXor(b, lfsr_tap(st.lfsr))
    IN [i |-> st.i + 1,
        lfsr |-> lfsr_shift(st.lfsr, b),
        out_bits |-> Append(st.out_bits, out)]

\* body of the for loop of g3ruh_descramble
g3ruh_step(bits, variant, st) ==
    LET b == bits[st.i] % 2
        out == BitXor(b, lfsr_tap(st.lfsr))
    IN [i |-> st.i + 1,
        lfsr |-> IF variant = 0 THEN lfsr_shift(st.lfsr, b)
                 ELSE lfsr_shift(st.lfsr, out),
        out_bits |-> Append(st.out_bits, out)]

RECURSIVE g3ruh_loop(_, _, _, _, _)
g3ruh_loop(bits, variant, lo, hi, st) ==
    IF st.i > hi THEN st
    ELSE IF lo = hi THEN g3ruh_step(bits, variant, st)
    ELSE LET mid == (lo + hi) \div 2
         IN g3ruh_loop(bits, variant, mid + 1, hi, g3ruh_loop(bits, variant, lo, mid, st))

g3ruh_descramble(bits, variant) ==
    g3ruh_loop(bits, variant, 1, Len(bits),
               [i |-> 1, lfsr |-> 0, out_bits |-> <<>>]).out_bits

g3ruh_scramble(bits, variant) == g3ruh_descramble(bits, variant)

(***************************************************************************)
(* modem_g3ruh.py: HDLC framer and modem                                   *)
(***************************************************************************)
DemodResult(frames, chosen_phase, inverted, descramble_variant) ==
    [frames |-> frames, chosen_phase |-> chosen_phase, inverted |-> inverted,
     descramble_variant |-> descramble_variant]

\* the 0-based positions i with bits[i : i + 8] == flag_bits, ascending
flag_positions(bits) ==
    LET flag_bits == bytes_to_bits_lsb_first(<<AX25_FLAG>>)
        IsFlagAt(i) == \A k \in 1..8 : bits[i + k] = flag_bits[k]
    IN SelectSeq([j \in 1..(IF Len(bits) >= 8 THEN Len(bits) - 7 ELSE 0) |-> j - 1],
                 IsFlagAt)

\* faulty variant: the FCS is not compared
hdlc_candidate_NoFcs(bits, a, b) ==
    LET start == a + 8
        end == b
    IN IF end <= start THEN <<>>
       ELSE LET payload_bits == Slice(bits, start, end) IN
            IF Len(payload_bits) < 8 * (7 + 7 + 2 + 2) THEN <<>>
            ELSE LET unstuffed == bitunstuff(payload_bits)
                     data == bits_to_bytes_lsb_first(unstuffed)
                 IN IF Len(data) < 2 THEN <<>>
                    ELSE <<Slice(data, 0, Len(data) - 2)>>

\* one pass of the loop over zip(flags, flags[1:]): the frame appended for the
\* flags at a and b, as a list of zero or one frame
hdlc_candidate(bits, a, b) ==
    LET start == a + 8
        end == b
    IN IF end <= start THEN <<>>
       ELSE LET payload_bits == Slice(bits, start, end) IN
            IF Len(payload_bits) < 8 * (7 + 7 + 2 + 2) THEN <<>>
            ELSE LET unstuffed == bitunstuff(payload_bits)
                     data == bits_to_bytes_lsb_first(unstuffed)
                 IN IF Len(data) < 2 THEN <<>>
                    ELSE LET frame_wo_fcs == Slice(data, 0, Len(data) - 2)
                             fcs_bytes == Slice(data, Len(data) - 2, Len(data))
                             got_fcs == BitOr(fcs_bytes[1], fcs_bytes[2] * 256)
                             calc == crc16_x25(frame_wo_fcs)
                         IN IF got_fcs # calc THEN <<>> ELSE <<frame_wo_fcs>>

extract_hdlc_frames(bits) ==
    LET flags == flag_positions(bits)
    IN Concat([k \in 1..(IF Len(flags) >= 1 THEN Len(flags) - 1 ELSE 0) |->
                  hdlc_candidate(bits, flags[k], flags[k + 1])])

\* a WAV file: its header fields and its samples (signed 16-bit when the
\* sample width is 2 and the file is mono)
Wav(sampwidth, nchannels, framerate, samples) ==
    [sampwidth |-> sampwidth, nchannels |-> nchannels, framerate |-> framerate,
     samples |-> samples]

RECURSIVE SumRange(_, _, _)
SumRange(samples, from, to) ==
    IF from > to THEN 0 ELSE samples[from] + SumRange(samples, from + 1, to)

\* the levels of one phase: the sign of the mean of each window of spb_i
\* samples starting at the phase
phase_levels(samples, phase, spb_i) ==
    [k \in 1..(IF Len(samples) >= phase + spb_i
               THEN (Len(samples) - phase) \div spb_i ELSE 0) |->
        IF SumRange(samples, phase + (k - 1) * spb_i + 1, phase + k * spb_i) >= 0
        THEN 1 ELSE 0]

\* faulty variant: the inversion is applied to the decoded bits, not to the
\* levels
demod_pass_InvertBits(samples, spb_i, phase, inverted, variant) ==
    LET levels == phase_levels(samples, phase, spb_i)
        dec == nrzi_decode(levels)
        bits_nrzi == [k \in 1..Len(dec) |-> BitXor(dec[k], IF inverted THEN 1 ELSE 0)]
        bits == g3ruh_descramble(bits_nrzi, variant)
    IN DemodResult(extract_hdlc_frames(bits), phase, inverted, variant)

\* the candidate result of one (phase, inverted, variant) pass
demod_pass(samples, spb_i, phase, inverted, variant) ==
    LET levels == phase_levels(samples, phase, spb_i)
        lev == [k \in 1..Len(levels) |-> BitXor(levels[k], IF inverted THEN 1 ELSE 0)]
        bits_nrzi == nrzi_decode(lev)
        bits == g3ruh_descramble(bits_nrzi, variant)
    IN DemodResult(extract_hdlc_frames(bits), phase, inverted, variant)

\* faulty variant: a candidate with as many frames as best replaces it
RECURSIVE demod_search_LastWins(_, _, _)
demod_search_LastWins(samples, spb_i, n) ==
    IF n = 0 THEN <<>>
    ELSE LET best == demod_search_LastWins(samples, spb_i, n - 1)
             k == n - 1
             cand == demod_pass(samples, spb_i, k \div 4, ((k \div 2) % 2) = 1, k % 2)
         IN IF cand.frames = <<>> THEN best
            ELSE IF best = <<>> \/ Len(cand.frames) >= Len(best[1].frames) THEN <<cand>>
            ELSE best

\* best after the first n passes of the three nested loops, <<>> for None:
\* pass k (0-based) has phase k div 4, inverted = (k div 2) mod 2 and variant
\* k mod 2
RECURSIVE demod_search(_, _, _)
demod_search(samples, spb_i, n) ==
    IF n = 0 THEN <<>>
    ELSE LET best == demod_search(samples, spb_i, n - 1)
             k == n - 1
             cand == demod_pass(samples, spb_i, k \div 4, ((k \div 2) % 2) = 1, k % 2)
         IN IF cand.frames = <<>> THEN best
            ELSE IF best = <<>> \/ Len(cand.frames) > Len(best[1].frames) THEN <<cand>>
            ELSE best

\* abs(spb - round(spb)) > 1e-6 for spb = fs / float(baud) and baud > 0, in
\* exact arithmetic: with r = fs % baud the distance of fs / baud to the
\* nearest integer is min(r, baud - r) / baud, which exceeds 10^-6 exactly
\* when min(r, baud - r) > baud div 10^6.  (Where the distance is 10^-6 to
\* the last digit the rounding of the float division decides; no such pair
\* of fs and baud is drawn.)
spb_not_integral(fs, baud) ==
    LET r == fs % baud
        m == IF r <= baud - r THEN r ELSE baud - r
    IN m > baud \div 1000000

\* int(round(fs / float(baud))) for baud > 0
spb_round(fs, baud) ==
    IF 2 * (fs % baud) > baud THEN (fs \div baud) + 1 ELSE fs \div baud

\* faulty variant: the result for no frames names variant 1
demod_result_Variant1(best) ==
    IF best # <<>> THEN best[1] ELSE DemodResult(<<>>, 0, FALSE, 1)

\* best or DemodResult(frames=[], chosen_phase=0, inverted=False,
\* descramble_variant=0), best being <<>> for None
demod_result(best) ==
    IF best # <<>> THEN best[1] ELSE DemodResult(<<>>, 0, FALSE, 0)

\* baud >= 0
demod_wav_to_ax25_frames(wav, baud) ==
    IF wav.sampwidth # 2 THEN Err("ValueError: Expected 16-bit PCM WAV")
    ELSE IF wav.nchannels # 1 THEN Err("ValueError: Expected mono WAV")
    ELSE IF baud = 0 THEN Err("ZeroDivisionError: float division by zero")
    ELSE IF spb_not_integral(wav.framerate, baud)
         THEN Err("ValueError: Sample rate not an integer multiple of baud")
    ELSE LET spb_i == spb_round(wav.framerate, baud)
         IN Ok(demod_result(demod_search(wav.samples, spb_i, 4 * spb_i)))

mod_ax25_frame_to_wav(frame, baud, fs, amplitude, pre_flags, post_flags, scramble_variant, initial_level) ==
    IF baud = 0 THEN Err("ZeroDivisionError: integer modulo by zero")
    ELSE IF fs % baud # 0 THEN Err("ValueError: fs must be an integer multiple of baud")
    ELSE IF amplitude \notin -32767..32767 THEN Err("struct.error: short format requires a 16-bit value")
    ELSE LET spb == fs \div baud
             fcs == crc16_x25(frame)
             frame_fcs == frame \o <<fcs % 256, fcs \div 256>>
             bits == bytes_to_bits_lsb_first(Repeat(AX25_FLAG, pre_flags))
                     \o bitstuff(bytes_to_bits_lsb_first(frame_fcs))
                     \o bytes_to_bits_lsb_first(Repeat(AX25_FLAG, post_flags))
             scrambled == g3ruh_scramble(bits, scramble_variant)
             levels == nrzi_encode(scrambled, initial_level)
             pcm == [k \in 1..(Len(levels) * spb) |->
                        IF levels[((k - 1) \div spb) + 1] # 0 THEN amplitude ELSE -amplitude]
         IN Ok(Wav(2, 1, fs, pcm))

(***************************************************************************)
(* cli.py and mission_cli.py: the telecommand paths                        *)
(***************************************************************************)
\* cli._wrap_ax25(payload, src=..., dst=...)
wrap_ax25(payload, src, dst) ==
    AX25Frame_encode(AX25Frame(AX25Address(dst, 0), AX25Address(src, 0),
                               AX25_CONTROL_UI, AX25_PID_NO_LAYER3, payload))

HA7FLR == <<72, 65, 55, 70, 76, 82>>      \* "HA7FLR"
GROUND == <<71, 82, 79, 85, 78, 68>>      \* "GROUND"

\* mission_cli._wrap_uplink_ax25(payload)
wrap_uplink_ax25(payload) ==
    AX25Frame_encode(AX25Frame(AX25Address(HA7FLR, 0), AX25Address(GROUND, 0),
                               AX25_CONTROL_UI, AX25_PID_NO_LAYER3, payload))

\* a > b for sequence numbers <<hi, lo>>
U32Greater(a, b) == a[1] > b[1] \/ (a[1] = b[1] /\ a[2] > b[2])

\* (seq + 1) & 0xFFFFFFFF for seq = <<hi, lo>>
U32Inc(seq) ==
    IF seq[2] = 65535 THEN <<(seq[1] + 1) % 65536, 0>> ELSE <<seq[1], seq[2] + 1>>

\* the try block of mission_cli._find_latest_tl for one frame: the record
\* decoded from the payload of the parsed frame ax, or the error raised
find_latest_tl_try(ax) == IF ax.ok THEN decode_telemetry(ax.val.payload) ELSE ax

\* best after a frame whose try block gave tl; best is <<>> for None, else
\* <<the record>>; a frame whose AX.25 or telemetry parse raised is passed over
find_latest_tl_keep(best, tl) ==
    IF ~tl.ok THEN best
    ELSE IF best = <<>> \/ U32Greater(tl.val.sequence, best[1].sequence) THEN <<tl.val>>
    ELSE best

\* the loop of mission_cli._find_latest_tl over the frames from index i on
RECURSIVE find_latest_tl_loop(_, _, _)
find_latest_tl_loop(ax25_frames, i, best) ==
    IF i > Len(ax25_frames) THEN best
    ELSE find_latest_tl_loop(ax25_frames, i + 1,
            find_latest_tl_keep(best, find_latest_tl_try(AX25Frame_decode(ax25_frames[i]))))

find_latest_tl(ax25_frames) == find_latest_tl_loop(ax25_frames, 1, <<>>)

(***************************************************************************)
(* AX.25 operations: encode a frame, decode what encode produced, decode   *)
(* arbitrary bytes off the wire.                                           *)
(***************************************************************************)
MaxPayloadLen == 1      \* longest frame payload drawn for the AX.25 codec
MaxRawLen == 18         \* longest raw byte string handed to AX25Frame.decode

\* "", "A", "HA7FLR", "ground", "A B", "AB ", "TOOLONG", "HA7FL" + U+00DF, U+00E9
CallSigns ==
    { <<>>, <<65>>, <<72, 65, 55, 70, 76, 82>>, <<103, 114, 111, 117, 110, 100>>,
      <<65, 32, 66>>, <<65, 66, 32>>, <<84, 79, 79, 76, 79, 78, 71>>,
      <<72, 65, 55, 70, 76, 223>>, <<233>> }

Ssids == {-1, 0, 15, 16}
Controls == {AX25_CONTROL_UI, 255, 256}
Pids == {AX25_PID_NO_LAYER3, -1}
PayloadBytes == {0, 126}

BytesUpTo(alphabet, n) == UNION { [1..k -> alphabet] : k \in 0..n }

Ax25FrameInputs ==
    { AX25Frame(AX25Address(dc, ds), AX25Address(sc, ss), c, p, pl) :
        dc \in CallSigns, ds \in Ssids, sc \in CallSigns, ss \in Ssids,
        c \in Controls, p \in Pids, pl \in BytesUpTo(PayloadBytes, MaxPayloadLen) }

\* n bytes whose destination-SSID byte is b6 and source-SSID byte is b13; the
\* other bytes depend on their offset so that every field is recognisable
RawBytes(n, b6, b13, seed) ==
    [i \in 1..n |-> IF i = 7 THEN b6 ELSE IF i = 14 THEN b13 ELSE (seed + 37 * i) % 256]

SsidBytes == {0, 96, 97, 254, 255}

Ax25RawInputs ==
    { RawBytes(n, b6, b13, seed) :
        n \in 0..MaxRawLen, b6 \in SsidBytes, b13 \in SsidBytes, seed \in {0, 64} }

InitAx25 ==
    /\ ret = None
    /\ \/ pc = "ax25.frame" /\ args \in Ax25FrameInputs
       \/ pc = "ax25.raw" /\ args \in Ax25RawInputs

\* frame.encode()
Ax25Encode ==
    /\ pc = "ax25.frame"
    /\ ret' = [encode |-> AX25Frame_encode(args)]
    /\ pc' = "ax25.encoded"
    /\ UNCHANGED args

\* AX25Frame.decode(frame.encode())
Ax25DecodeEncoded ==
    /\ pc = "ax25.encoded"
    /\ ret.encode.ok
    /\ ret' = [encode |-> ret.encode, decode |-> AX25Frame_decode(ret.encode.val)]
    /\ pc' = "ax25.roundtrip"
    /\ UNCHANGED args

\* AX25Frame.decode(raw) as the decode-ax25 command calls it
Ax25DecodeRaw ==
    /\ pc = "ax25.raw"
    /\ ret' = [decode |-> AX25Frame_decode(args)]
    /\ pc' = "ax25.decoded"
    /\ UNCHANGED args

NextAx25 == Ax25Encode \/ Ax25DecodeEncoded \/ Ax25DecodeRaw

SpecAx25 == InitAx25 /\ [][NextAx25]_vars

(***************************************************************************)
(* Claims about the AX.25 codec (checked under SpecAx25)                   *)
(***************************************************************************)
\* a callsign of 1..6 upper-case ASCII characters without trailing spaces
ValidCallsign(c) ==
    /\ Len(c) \in 1..6
    /\ IsAscii(c)
    /\ Upper(c) = c
    /\ c[Len(c)] # 32

ValidAddress(a) == ValidCallsign(a.callsign) /\ a.ssid \in 0..15

ValidFrame(f) ==
    /\ ValidAddress(f.destination)
    /\ ValidAddress(f.source)
    /\ IsByte(f.control)
    /\ IsByte(f.pid)

\* C5: for every frame with valid callsigns (1..6 upper-case ASCII characters,
\* no trailing space), SSIDs in 0..15 and byte-valued control and PID,
\* encode succeeds and AX25Frame.decode(frame.encode()) equals the frame
\* field for field.
C5_Ax25RoundTrip ==
    (pc \in {"ax25.encoded", "ax25.roundtrip"} /\ ValidFrame(args)) =>
        /\ ret.encode.ok
        /\ pc = "ax25.roundtrip" => (ret.decode.ok /\ ret.decode.val = args)

C5_Witness ==
    /\ pc = "ax25.roundtrip"
    /\ ValidFrame(args)
    /\ Len(args.destination.callsign) < 6
    /\ args.source.ssid = 15
    /\ args.payload # <<>>
    /\ ret.decode.val = args

\* C6: AX25Frame.decode(raw) fails exactly when len(raw) < 16 or bit 0 of
\* raw[13] is clear, the length check coming first; every other byte string
\* decodes, with control = raw[14], pid = raw[15], payload = raw[16:].
C6_DecodeRejects ==
    pc = "ax25.decoded" =>
        LET raw == args
            r == ret.decode
            short == Len(raw) < 16
        IN /\ r.ok <=> ~(short \/ (raw[14] % 2) = 0)
           /\ short => r.err = "ValueError: Frame too short to be AX.25"
           /\ (~short /\ ~r.ok) => r.err = "ValueError: source address not marked last"
           /\ r.ok => /\ r.val.control = raw[15]
                      /\ r.val.pid = raw[16]
                      /\ r.val.payload = [i \in 1..(Len(raw) - 16) |-> raw[16 + i]]

C6_Witness ==
    /\ pc = "ax25.decoded"
    /\ Len(args) = 18
    /\ args[7] % 2 = 1
    /\ ret.decode.ok
    /\ Len(ret.decode.val.payload) = 2

\* the two failure causes the claim names, and the inputs it says succeed
C7_TooLongOrBadSsid(f) ==
    \/ Len(f.destination.callsign) > 6
    \/ Len(f.source.callsign) > 6
    \/ f.destination.ssid \notin 0..15
    \/ f.source.ssid \notin 0..15

C7_AsciiAddresses(f) ==
    /\ Len(f.destination.callsign) <= 6 /\ IsAscii(f.destination.callsign)
    /\ Len(f.source.callsign) <= 6 /\ IsAscii(f.source.callsign)
    /\ f.destination.ssid \in 0..15
    /\ f.source.ssid \in 0..15

\* C7 as stated: encode fails whenever a callsign has more than 6 characters
\* or an SSID is outside 0..15, and succeeds for every frame whose callsigns
\* have at most 6 ASCII characters and whose SSIDs are in 0..15.
C7_Original ==
    pc = "ax25.encoded" =>
        /\ C7_TooLongOrBadSsid(args) => ~ret.encode.ok
        /\ C7_AsciiAddresses(args) => ret.encode.ok

\* C7 (amended): encode fails whenever a callsign has more than 6 characters
\* or an SSID is outside 0..15, and succeeds for every frame whose callsigns
\* have at most 6 ASCII characters and whose SSIDs are in 0..15 provided
\* control and PID are byte values 0..255.
C7_EncodeFails ==
    pc = "ax25.encoded" =>
        /\ C7_TooLongOrBadSsid(args) => ~ret.encode.ok
        /\ (C7_AsciiAddresses(args) /\ IsByte(args.control) /\ IsByte(args.pid))
              => ret.encode.ok

C7_Witness ==
    /\ pc = "ax25.encoded"
    /\ Len(args.source.callsign) = 7
    /\ args.destination.ssid \in 0..15
    /\ Len(args.destination.callsign) = 6
    /\ IsByte(args.control) /\ IsByte(args.pid)
    /\ ~ret.encode.ok

\* C8: for every valid frame, encode() yields 16 + len(payload) bytes; bytes
\* 0..5 and 7..12 are the space-padded callsign characters shifted left by
\* one (bit 0 clear); byte 6 is 0x60 | dst.ssid<<1 (bit 0 clear); byte 13 is
\* 0x60 | src.ssid<<1 | 1 (bit 0 set); bytes 14 and 15 are control and PID.
C8_WireLayout ==
    (pc = "ax25.encoded" /\ ValidFrame(args)) =>
        LET e == ret.encode.val
            dst == Ljust(args.destination.callsign, 6)
            src == Ljust(args.source.callsign, 6)
        IN /\ ret.encode.ok
           /\ Len(e) = 16 + Len(args.payload)
           /\ \A i \in 1..6 : e[i] = 2 * dst[i] /\ e[i] % 2 = 0
           /\ \A i \in 1..6 : e[7 + i] = 2 * src[i] /\ e[7 + i] % 2 = 0
           /\ e[7] = 96 + 2 * args.destination.ssid /\ e[7] % 2 = 0
           /\ e[14] = 96 + 2 * args.source.ssid + 1 /\ e[14] % 2 = 1
           /\ e[15] = args.control
           /\ e[16] = args.pid

C8_Witness ==
    /\ pc = "ax25.encoded"
    /\ ValidFrame(args)
    /\ Len(args.destination.callsign) = 1
    /\ args.source.ssid = 15
    /\ args.payload # <<>>
    /\ ret.encode.val[14] = 127

(***************************************************************************)
(* Telemetry operation: decode_telemetry(payload) on byte strings built    *)
(* from a packet-type prefix, one of two fixed-field blocks, a motd length *)
(* byte and motd bytes, cut or padded to a chosen length.                  *)
(***************************************************************************)
MaxTlLen == 46      \* longest telemetry payload drawn

\* the S1 payload of the specification: sequence 7, timestamp 1, uptime 500,
\* boot_count 2, voltages 4000 x 3, currents 100 x 3, temperature 250, "DEMO"
S1Fixed ==
    <<0, 0, 0, 7,  0, 0, 0, 0, 0, 0, 0, 1,  0, 0, 1, 244,  0, 0, 0, 2,  0, 1, 0,
      15, 160, 15, 160, 15, 160,  0, 100, 0, 100, 0, 100,  0, 250>>

S1Payload == <<84, 76>> \o S1Fixed \o <<4, 68, 69, 77, 79>>

\* a block with the top bit set in every signed or wide field
HighFixed ==
    <<255, 255, 255, 254,  255, 255, 255, 255, 255, 255, 255, 255,  128, 0, 0, 1,
      1, 2, 3, 4,  9, 8, 7,  1, 2, 3, 4, 5, 6,  255, 254, 128, 0, 0, 1,  255, 56>>

TlPrefixes == { <<84, 76>>, <<84, 77>>, <<76, 84>>, <<0, 0>> }
TlFixedBlocks == { S1Fixed, HighFixed }
TlMotdLens == { 0, 4, 5, 255 }
\* "DEMO", "D" + U+00E9 + "M" in UTF-8, and bytes that are not UTF-8
TlMotds == { <<68, 69, 77, 79>>, <<68, 195, 169, 77>>, <<68, 255, 195, 40>> }

\* the first n bytes of prefix + fixed + length byte + motd + padding
TlBytes(prefix, fixed, motdlen, motd, n) ==
    LET full == prefix \o fixed \o <<motdlen>> \o motd
    IN [i \in 1..n |-> IF i <= Len(full) THEN full[i] ELSE 238]

TelemetryInputs ==
    { TlBytes(prefix, fixed, motdlen, motd, n) :
        prefix \in TlPrefixes, fixed \in TlFixedBlocks, motdlen \in TlMotdLens,
        motd \in TlMotds, n \in 0..MaxTlLen }

InitTelemetry ==
    /\ pc = "tl.payload"
    /\ args \in TelemetryInputs
    /\ ret = None

\* decode_telemetry(payload), as the decode-telemetry command calls it
TlDecode ==
    /\ pc = "tl.payload"
    /\ ret' = decode_telemetry(args)
    /\ pc' = "tl.decoded"
    /\ UNCHANGED args

NextTelemetry == TlDecode

SpecTelemetry == InitTelemetry /\ [][NextTelemetry]_vars

(***************************************************************************)
(* Claims about the telemetry decoder (checked under SpecTelemetry)        *)
(***************************************************************************)
\* big-endian fields of a byte string, by 0-based offset
C10_U16At(p, off) == p[off + 1] * 256 + p[off + 2]
C10_S16At(p, off) ==
    IF p[off + 1] >= 128 THEN C10_U16At(p, off) - 65536 ELSE C10_U16At(p, off)
C10_U32At(p, off) == <<C10_U16At(p, off), C10_U16At(p, off + 2)>>

\* C9: decode_telemetry(p) fails with "truncated payload" when len(p) < 2;
\* with "not a TL packet" when len(p) >= 2 and the leading u16 is not 0x544C;
\* with "truncated payload" when the prefix is 0x544C and len(p) < 40 or
\* len(p) < 40 + p[39]; and succeeds otherwise, whatever the motd bytes are,
\* ignoring the bytes after the motd.
C9_TelemetryOutcome ==
    pc = "tl.decoded" =>
        LET p == args IN
        IF Len(p) < 2 THEN ret = Err(DecodeError_Truncated)
        ELSE IF C10_U16At(p, 0) # 21580 THEN ret = Err(DecodeError_NotTL)
        ELSE IF Len(p) < 40 \/ Len(p) < 40 + p[40] THEN ret = Err(DecodeError_Truncated)
        ELSE /\ ret.ok
             /\ Len(ret.val.motd) <= p[40]
             /\ ret = decode_telemetry(SubSeq(p, 1, 40 + p[40]))

C9_Witness ==
    /\ pc = "tl.decoded"
    /\ Len(args) = 46
    /\ args[40] = 4
    /\ args[42] = 255
    /\ ret.ok

\* C10: on success the fields are read big-endian, in order from offset 2:
\* sequence (u32), timestamp (i64), uptime (u32), boot_count (u32),
\* restart_reason, mode, flags (u8), three voltages and three currents (u16),
\* temperature raw (i16, reported as raw/10) and a motd of p[39] bytes from
\* offset 40; the S1 payload gives sequence 7, timestamp 1, uptime 500,
\* boot_count 2, voltages (4000, 4000, 4000), temperature raw 250, motd "DEMO".
C10_FieldLayout ==
    (pc = "tl.decoded" /\ ret.ok) =>
        LET p == args
            t == ret.val
            motd_bytes == SubSeq(p, 41, 40 + p[40])
        IN /\ t.sequence = C10_U32At(p, 2)
           /\ t.timestamp = <<C10_S16At(p, 6), C10_U16At(p, 8), C10_U16At(p, 10), C10_U16At(p, 12)>>
           /\ t.uptime = C10_U32At(p, 14)
           /\ t.boot_count = C10_U32At(p, 18)
           /\ t.restart_reason = p[23]
           /\ t.mode = p[24]
           /\ t.flags = p[25]
           /\ t.battery_voltages_mv = <<C10_U16At(p, 25), C10_U16At(p, 27), C10_U16At(p, 29)>>
           /\ t.battery_currents_ma = <<C10_U16At(p, 31), C10_U16At(p, 33), C10_U16At(p, 35)>>
           /\ t.temperature_c = <<C10_S16At(p, 37), 10>>
           /\ (\A i \in 1..Len(motd_bytes) : motd_bytes[i] < 128) => t.motd = motd_bytes
           /\ p = S1Payload =>
                 /\ t.sequence = <<0, 7>>
                 /\ t.timestamp = <<0, 0, 0, 1>>
                 /\ t.uptime = <<0, 500>>
                 /\ t.boot_count = <<0, 2>>
                 /\ t.battery_voltages_mv = <<4000, 4000, 4000>>
                 /\ t.temperature_c = <<250, 10>>
                 /\ t.motd = <<68, 69, 77, 79>>

C10_Witness ==
    /\ pc = "tl.decoded"
    /\ args = S1Payload
    /\ ret.ok
    /\ ret.val.sequence = <<0, 7>>

(***************************************************************************)
(* Telecommand operations: build a packet, verify it, verify a copy of it  *)
(* in which one byte was changed.                                          *)
(***************************************************************************)
MaxTcPayloadLen == 2    \* longest telecommand payload drawn

TcTypes == { 0, CMD_SET_MOTD, CMD_SSTV, 65535, -1, 65536 }
\* 0, 7, 0xFFFFFFFF, 0x100000000, -1
TcSequences == { <<0, 0>>, <<0, 7>>, <<65535, 65535>>, <<65536, 0>>, <<-1, 65535>> }
TcPayloadBytes == { 0, 104, 255 }

TelecommandInputs ==
    { [command_type |-> t, sequence |-> q, payload |-> pl] :
        t \in TcTypes, q \in TcSequences, pl \in BytesUpTo(TcPayloadBytes, MaxTcPayloadLen) }

\* the values a byte is changed to
TamperValues(old) == { (old + 1) % 256, BitXor(old, 128), 0, 255 } \ { old }

\* byte strings handed to verify_telecommand as they are: runs of one byte
\* value and every prefix of two well-formed packets, 0 to MaxTcRawLen bytes
MaxTcRawLen == 40

TcRawPackets ==
    { Repeat(b, n) : b \in {0, 255}, n \in 0..MaxTcRawLen }
    \cup { Slice(p, 0, n) : p \in { build_telecommand(CMD_SSTV, <<0, 7>>, <<>>).val,
                                    build_telecommand(CMD_SET_MOTD, <<0, 7>>, <<1, 104>>).val },
                             n \in 0..MaxTcRawLen }

Motd255 == Repeat(97, 255)              \* 255 x "a": 255 bytes of UTF-8
Motd256 == Repeat(97, 256)              \* 256 x "a"
MotdAccents == Repeat(233, 128)         \* 128 x U+00E9: 256 bytes of UTF-8
MotdCafe == <<99, 97, 102, 233>>        \* "caf" U+00E9: 5 bytes of UTF-8

TcMotds == { <<>>, <<104, 105>>, MotdCafe, Motd255, Motd256, MotdAccents }

InitTelecommand ==
    /\ ret = None
    /\ \/ /\ pc = "tc.args"
          /\ args \in TelecommandInputs
       \/ /\ pc = "tc.raw"
          /\ args \in { [packet |-> p] : p \in TcRawPackets }
       \/ /\ pc = "tc.motd_args"
          /\ args \in { [sequence |-> q, motd |-> m] : q \in TcSequences, m \in TcMotds }
       \/ /\ pc = "tc.sstv_args"
          /\ args \in { [sequence |-> q] : q \in TcSequences }

\* build_telecommand(command_type, sequence, payload)
TcBuild ==
    /\ pc = "tc.args"
    /\ ret' = [build |-> build_telecommand(args.command_type, args.sequence, args.payload)]
    /\ pc' = "tc.built"
    /\ UNCHANGED args

\* verify_telecommand(packet) on the packet as built
TcVerify ==
    /\ pc = "tc.built"
    /\ ret.build.ok
    /\ ret' = [build |-> ret.build, packet |-> ret.build.val,
               verify |-> verify_telecommand(ret.build.val)]
    /\ pc' = "tc.verified"
    /\ UNCHANGED args

\* verify_telecommand(packet) on the packet with the byte at one offset changed
TcVerifyTampered ==
    /\ pc = "tc.built"
    /\ ret.build.ok
    /\ \E i \in 1..Len(ret.build.val) : \E b \in TamperValues(ret.build.val[i]) :
          LET packet == [ret.build.val EXCEPT ![i] = b]
          IN ret' = [build |-> ret.build, packet |-> packet,
                     verify |-> verify_telecommand(packet)]
    /\ pc' = "tc.tampered"
    /\ UNCHANGED args

\* verify_telecommand(packet) on an arbitrary byte string
TcVerifyRaw ==
    /\ pc = "tc.raw"
    /\ ret' = [verify |-> verify_telecommand(args.packet),
               macs |-> verify_telecommand_macs(args.packet)]
    /\ pc' = "tc.raw_verified"
    /\ UNCHANGED args

\* build_set_motd(sequence, motd)
TcBuildSetMotd ==
    /\ pc = "tc.motd_args"
    /\ ret' = [build |-> build_set_motd(args.sequence, args.motd)]
    /\ pc' = "tc.motd_built"
    /\ UNCHANGED args

\* build_sstv(sequence)
TcBuildSstv ==
    /\ pc = "tc.sstv_args"
    /\ ret' = [build |-> build_sstv(args.sequence)]
    /\ pc' = "tc.sstv_built"
    /\ UNCHANGED args

NextTelecommand ==
    \/ TcBuild \/ TcVerify \/ TcVerifyTampered
    \/ TcVerifyRaw \/ TcBuildSetMotd \/ TcBuildSstv

SpecTelecommand == InitTelecommand /\ [][NextTelecommand]_vars

(***************************************************************************)
(* Claims about the telecommand codec (checked under SpecTelecommand)      *)
(***************************************************************************)
\* C3: for every command type in 0..0xFFFF, sequence in 0..0xFFFFFFFF and
\* payload, build_telecommand succeeds and verify_telecommand of the packet
\* returns no error; after any single byte of the packet (type, sequence,
\* payload or tag) is changed, verify_telecommand returns a non-empty error
\* string (HMAC collisions excluded).
C3_Authenticity ==
    /\ (pc = "tc.built" /\ args.command_type \in 0..65535 /\ args.sequence[1] \in 0..65535)
          => ret.build.ok
    /\ pc = "tc.verified" => ret.verify = None
    /\ pc = "tc.tampered" => ret.verify \in {"Bad HMAC", "Telecommand too short"}

C3_Witness ==
    /\ pc = "tc.tampered"
    /\ args.sequence = <<65535, 65535>>
    /\ Len(args.payload) = 2
    /\ ret.packet[8] # ret.build.val[8]
    /\ ret.verify = "Bad HMAC"

\* C11: verify_telecommand never raises: for every byte string it returns
\* either no error or a descriptive string, and for every packet shorter than
\* 2+4+32 = 38 bytes it returns the 'too short' error without computing any
\* MAC.
C11_VerifyTotal ==
    pc = "tc.raw_verified"
    => /\ ret.verify \in {None, "Telecommand too short", "Bad HMAC"}
       /\ Len(args.packet) < 38
             => (ret.verify = "Telecommand too short" /\ ret.macs = <<>>)
       /\ Len(args.packet) >= 38 => ret.verify # "Telecommand too short"

C11_Witness ==
    /\ pc = "tc.raw_verified"
    /\ Len(args.packet) = 37
    /\ args.packet[1] = 85
    /\ ret.verify = "Telecommand too short"
    /\ ret.macs = <<>>

\* the unsigned big-endian value of the n bytes of s from 0-based offset off,
\* as limbs <<hi, lo>> for n = 4 and as a number for n = 2
C12_U16At(s, off) == s[off + 1] * 256 + s[off + 2]
C12_U32At(s, off) == <<C12_U16At(s, off), C12_U16At(s, off + 2)>>

\* the layout of a packet for a command type, a sequence and a payload
C12_Layout(packet, command_type, sequence, payload) ==
    /\ Len(packet) = 38 + Len(payload)
    /\ \A i \in 1..Len(packet) : packet[i] \in 0..255
    /\ C12_U16At(packet, 0) = command_type
    /\ C12_U32At(packet, 2) = sequence
    /\ SubSeq(packet, 7, 6 + Len(payload)) = payload
    /\ SubSeq(packet, 7 + Len(payload), Len(packet))
          = hmac_sha256(HMAC_KEY, SubSeq(packet, 1, 6 + Len(payload)))

\* the UTF-8 length of a motd whose code points are below 0x800
C12_Utf8Len(motd) ==
    Len(motd) + Cardinality({ i \in 1..Len(motd) : motd[i] >= 128 })

\* C12: build_telecommand(type, seq, payload) returns 2 bytes of type
\* (big-endian), 4 bytes of sequence (big-endian), the payload unchanged, then
\* the 32-byte tag over those 6 + len(payload) bytes (38 + len(payload) bytes
\* in all); it fails when type is outside 0..0xFFFF or sequence outside
\* 0..0xFFFFFFFF; build_set_motd uses type 0x5500 with payload = one length
\* byte followed by the motd bytes (failing above 255 bytes), and build_sstv
\* uses type 0x5533 with an empty payload.
C12_TelecommandLayout ==
    /\ pc = "tc.built" =>
          IF args.command_type \in 0..65535 /\ args.sequence[1] \in 0..65535
          THEN /\ ret.build.ok
               /\ C12_Layout(ret.build.val, args.command_type, args.sequence, args.payload)
          ELSE ~ret.build.ok
    /\ pc = "tc.motd_built" =>
          IF C12_Utf8Len(args.motd) <= 255 /\ args.sequence[1] \in 0..65535
          THEN /\ ret.build.ok
               /\ C12_Layout(ret.build.val, 21760, args.sequence,
                             <<C12_Utf8Len(args.motd)>> \o Utf8Encode(args.motd))
          ELSE ~ret.build.ok
    /\ pc = "tc.sstv_built" =>
          IF args.sequence[1] \in 0..65535
          THEN /\ ret.build.ok
               /\ C12_Layout(ret.build.val, 21811, args.sequence, <<>>)
          ELSE ~ret.build.ok

C12_Witness ==
    /\ pc = "tc.motd_built"
    /\ args.motd = MotdCafe
    /\ args.sequence = <<65535, 65535>>
    /\ ret.build.ok
    /\ SubSeq(ret.build.val, 1, 12) = <<85, 0, 255, 255, 255, 255, 5, 99, 97, 102, 195, 169>>
    /\ Len(ret.build.val) = 44

(***************************************************************************)
(* Modem operations: scramble a bit sequence and descramble the result     *)
(* with either variant; modulate a frame to a WAV with the default         *)
(* parameters and demodulate that WAV.                                     *)
(***************************************************************************)
MaxScrambleBytes == 4   \* bit sequences are cut from this many bytes

DEFAULT_BAUD == 9600
DEFAULT_FS == 48000
DEFAULT_AMPLITUDE == 20000
DEFAULT_PRE_FLAGS == 32
DEFAULT_POST_FLAGS == 8
DEFAULT_INITIAL_LEVEL == 1

ScrambleBytes == { 0, 126, 255 }

\* every prefix of the bits of MaxScrambleBytes bytes
ScrambleInputs ==
    { SubSeq(bytes_to_bits_lsb_first(bs), 1, n) :
        bs \in [1..MaxScrambleBytes -> ScrambleBytes], n \in 0..(8 * MaxScrambleBytes) }

\* the 20-byte UI frame HA7FLR <- GROUND with payload 00 01 02 03
UiFrame20 ==
    AX25Frame_encode(AX25Frame(AX25Address(<<72, 65, 55, 70, 76, 82>>, 0),
                               AX25Address(<<71, 82, 79, 85, 78, 68>>, 0),
                               AX25_CONTROL_UI, AX25_PID_NO_LAYER3, <<0, 1, 2, 3>>)).val

\* frames of at least 16 bytes: the UI frame, all ones (stuffed after every
\* fifth bit), all flags, all zeros
ModemFrames == { UiFrame20, Repeat(255, 16), Repeat(AX25_FLAG, 17), Repeat(0, 16) }

InitModem ==
    /\ ret = None
    /\ \/ /\ pc = "g3ruh.bits"
          /\ args \in { [bits |-> b, variant |-> v] : b \in ScrambleInputs, v \in {0, 1} }
       \/ /\ pc = "modem.frame"
          /\ args \in { [frame |-> f, scramble_variant |-> v] : f \in ModemFrames, v \in {0, 1} }

\* g3ruh_scramble(bits, variant=v)
G3ruhScramble ==
    /\ pc = "g3ruh.bits"
    /\ ret' = [scrambled |-> g3ruh_scramble(args.bits, args.variant)]
    /\ pc' = "g3ruh.scrambled"
    /\ UNCHANGED args

\* g3ruh_descramble(scrambled, variant=dv), for either dv
G3ruhDescramble ==
    /\ pc = "g3ruh.scrambled"
    /\ \E dv \in {0, 1} :
          ret' = [scrambled |-> ret.scrambled, variant |-> dv,
                  descrambled |-> g3ruh_descramble(ret.scrambled, dv)]
    /\ pc' = "g3ruh.descrambled"
    /\ UNCHANGED args

\* mod_ax25_frame_to_wav(frame, out, scramble_variant=v): the file written
ModWav ==
    /\ pc = "modem.frame"
    /\ ret' = [wav |-> mod_ax25_frame_to_wav(args.frame, DEFAULT_BAUD, DEFAULT_FS,
                          DEFAULT_AMPLITUDE, DEFAULT_PRE_FLAGS, DEFAULT_POST_FLAGS,
                          args.scramble_variant, DEFAULT_INITIAL_LEVEL)]
    /\ pc' = "modem.wav"
    /\ UNCHANGED args

\* demod_wav_to_ax25_frames(out)
DemodWav ==
    /\ pc = "modem.wav"
    /\ ret.wav.ok
    /\ ret' = [wav |-> ret.wav, demod |-> demod_wav_to_ax25_frames(ret.wav.val, DEFAULT_BAUD)]
    /\ pc' = "modem.demod"
    /\ UNCHANGED args

NextModem == G3ruhScramble \/ G3ruhDescramble \/ ModWav \/ DemodWav

SpecModem == InitModem /\ [][NextModem]_vars

(***************************************************************************)
(* Modem claims                                                            *)
(***************************************************************************)
\* C2: for each variant v and every bit sequence B long enough to pass the
\* 17-bit register fill, both passes starting from LFSR = 0,
\* g3ruh_descramble(g3ruh_scramble(B, variant=v), variant=v) equals B.
\* As stated by the claim; g3ruh_scramble is the descrambling routine itself,
\* and applying it twice with one variant gives B back only up to bit 24.
C2_SelfInverse ==
    (/\ pc = "g3ruh.descrambled"
     /\ ret.variant = args.variant
     /\ Len(args.bits) >= 17)
    => ret.descrambled = args.bits

\* C1: for any AX.25 frame F of at least 16 bytes and either encoder
\* scramble_variant v, demod_wav_to_ax25_frames applied to the WAV written by
\* mod_ax25_frame_to_wav(F, scramble_variant=v) returns a result whose frames
\* include F, with inverted = false and descramble_variant equal to v.
\* As stated by the claim; the pass that recovers F is the one with the other
\* variant, so descramble_variant is 1 - v.
C1_ModemRoundTrip ==
    (pc = "modem.demod" /\ Len(args.frame) >= 16)
    => /\ ret.demod.ok
       /\ \E k \in 1..Len(ret.demod.val.frames) : ret.demod.val.frames[k] = args.frame
       /\ ret.demod.val.inverted = FALSE
       /\ ret.demod.val.descramble_variant = args.scramble_variant

\* C29: the two scrambler variants are mutual inverses from a zero register:
\* for every bit sequence B, g3ruh_descramble(g3ruh_scramble(B, variant=1),
\* variant=0) = B and g3ruh_descramble(g3ruh_scramble(B, variant=0),
\* variant=1) = B from the first bit on; and the frame of a WAV written by the
\* encoder with variant v is recovered by the decoder's pass with variant
\* 1 - v.
C29_CrossInverse ==
    /\ (pc = "g3ruh.descrambled" /\ ret.variant = 1 - args.variant)
       => ret.descrambled = args.bits
    /\ pc = "modem.demod"
       => /\ ret.demod.ok
          /\ ret.demod.val.frames = <<args.frame>>
          /\ ret.demod.val.descramble_variant = 1 - args.scramble_variant

\* a sequence longer than the register, changed by scrambling and
\* descrambled with the other variant
C29_Witness ==
    /\ pc = "g3ruh.descrambled"
    /\ ret.variant = 1 - args.variant
    /\ Len(args.bits) > 17
    /\ ret.scrambled # args.bits

(***************************************************************************)
(* Bit-level operations: stuff a bit sequence and unstuff the result; NRZI  *)
(* encode a bit sequence and decode the levels; NRZI decode a sequence read *)
(* as levels; the CRC of a byte string.                                     *)
(***************************************************************************)
MaxBitsLen == 11        \* every bit sequence up to this length is drawn

StuffBytes == { 0, 31, 62, 126, 248, 255 }

\* every bit sequence of at most MaxBitsLen bits, the bits of every string of
\* at most two of StuffBytes, and longer runs of ones
BitsInputs ==
    UNION { [1..n -> {0, 1}] : n \in 0..MaxBitsLen }
    \cup { bytes_to_bits_lsb_first(bs) : bs \in BytesUpTo(StuffBytes, 2) }
    \cup { Repeat(1, n) : n \in 12..31 }

InitialLevels == { 0, 1, 2, 3 }

Ascii123456789 == <<49, 50, 51, 52, 53, 54, 55, 56, 57>>

CrcInputs ==
    { Ascii123456789 } \cup BytesUpTo({0, 49, 255}, 3) \cup { <<b>> : b \in 0..255 }

InitBits ==
    /\ ret = None
    /\ \/ /\ pc = "bits.args"
          /\ args \in { [bits |-> b, initial_level |-> l] :
                          b \in BitsInputs, l \in InitialLevels }
       \/ /\ pc = "crc.args"
          /\ args \in { [data |-> dd] : dd \in CrcInputs }

\* bitstuff(bits)
BitStuff ==
    /\ pc = "bits.args"
    /\ ret' = [stuffed |-> bitstuff(args.bits)]
    /\ pc' = "bits.stuffed"
    /\ UNCHANGED args

\* bitunstuff(stuffed)
BitUnstuff ==
    /\ pc = "bits.stuffed"
    /\ ret' = [stuffed |-> ret.stuffed, unstuffed |-> bitunstuff(ret.stuffed)]
    /\ pc' = "bits.unstuffed"
    /\ UNCHANGED args

\* nrzi_encode(bits, initial_level=l)
NrziEncode ==
    /\ pc = "bits.args"
    /\ ret' = [levels |-> nrzi_encode(args.bits, args.initial_level)]
    /\ pc' = "nrzi.encoded"
    /\ UNCHANGED args

\* nrzi_decode(levels) on the levels nrzi_encode returned
NrziDecode ==
    /\ pc = "nrzi.encoded"
    /\ ret' = [levels |-> ret.levels, bits |-> nrzi_decode(ret.levels)]
    /\ pc' = "nrzi.decoded"
    /\ UNCHANGED args

\* nrzi_decode(levels) on the drawn sequence read as levels
NrziDecodeLevels ==
    /\ pc = "bits.args"
    /\ ret' = [bits |-> nrzi_decode(args.bits)]
    /\ pc' = "nrzi.levels_decoded"
    /\ UNCHANGED args

\* crc16_x25(data)
Crc16 ==
    /\ pc = "crc.args"
    /\ ret' = [crc |-> crc16_x25(args.data)]
    /\ pc' = "crc.done"
    /\ UNCHANGED args

NextBits ==
    \/ BitStuff \/ BitUnstuff
    \/ NrziEncode \/ NrziDecode \/ NrziDecodeLevels
    \/ Crc16

SpecBits == InitBits /\ [][NextBits]_vars

(***************************************************************************)
(* Claims about the bit-level operations (checked under SpecBits)          *)
(***************************************************************************)
\* C15: bitunstuff(bitstuff(B)) equals B for the bit representation B of every
\* byte sequence with fewer than five consecutive 1s, and more generally for
\* every finite bit sequence B (including ones ending in exactly five 1s).
C15_StuffRoundTrip ==
    pc = "bits.unstuffed" => ret.unstuffed = args.bits

\* B ends in exactly five 1s: a 0 is stuffed at the very end and removed again
C15_Witness ==
    /\ pc = "bits.unstuffed"
    /\ args.bits = <<1, 0, 1, 1, 1, 1, 1>>
    /\ ret.stuffed = <<1, 0, 1, 1, 1, 1, 1, 0>>
    /\ ret.unstuffed = args.bits

\* s has a run of n consecutive 1s
C16_HasRun(s, n) ==
    \E i \in 1..(Len(s) - n + 1) : \A k \in 0..(n - 1) : s[i + k] = 1

\* the bits of the flag byte 0x7E, least significant first
C16_FlagBits == <<0, 1, 1, 1, 1, 1, 1, 0>>

\* the 1-based positions at which the flag pattern starts in s
C16_FlagStarts(s) ==
    { i \in 1..(Len(s) - 7) : SubSeq(s, i, i + 7) = C16_FlagBits }

\* C16: for every finite bit sequence B, bitstuff(B) contains no run of six or
\* more consecutive 1s, so the flag pattern 0x7E never appears inside, or
\* straddling the edges of, the stuffed frame body between the opening and
\* the closing flag written by the encoder.
C16_NoFlagInBody ==
    pc = "bits.stuffed"
    => /\ ~C16_HasRun(ret.stuffed, 6)
       /\ C16_FlagStarts(C16_FlagBits \o ret.stuffed \o C16_FlagBits)
             = {1, Len(ret.stuffed) + 9}

\* B holds the flag byte itself and a run of eleven 1s
C16_Witness ==
    /\ pc = "bits.stuffed"
    /\ args.bits = bytes_to_bits_lsb_first(<<126, 255>>)
    /\ Len(ret.stuffed) = Len(args.bits) + 2
    /\ C16_HasRun(args.bits, 6)
    /\ C16_HasRun(ret.stuffed, 5)

\* C17: for every bit sequence B and every initial level L,
\* nrzi_encode(B, initial_level=L) has len(B)+1 levels and nrzi_decode of it
\* equals B (nrzi_decode of n >= 1 levels has n-1 bits, and of no levels is
\* empty).
C17_NrziRoundTrip ==
    /\ pc = "nrzi.encoded" => Len(ret.levels) = Len(args.bits) + 1
    /\ pc = "nrzi.decoded" => ret.bits = args.bits
    /\ pc = "nrzi.levels_decoded"
          => Len(ret.bits) = IF Len(args.bits) >= 1 THEN Len(args.bits) - 1 ELSE 0

C17_Witness ==
    /\ pc = "nrzi.decoded"
    /\ args.bits = <<0, 1, 1, 0, 0, 1>>
    /\ args.initial_level = 0
    /\ ret.levels = <<0, 1, 1, 1, 0, 1, 1>>
    /\ ret.bits = args.bits

\* C18: crc16_x25 is the CRC-16/X-25 function (reflected polynomial 0x8408,
\* init 0xFFFF, xorout 0xFFFF): its result is always within 0..0xFFFF and
\* crc16_x25 of the ASCII bytes '123456789' equals 0x906E (36974).
C18_Crc16X25 ==
    pc = "crc.done"
    => /\ ret.crc \in 0..65535
       /\ args.data = Ascii123456789 => ret.crc = 36974
       /\ args.data = <<>> => ret.crc = 0

C18_Witness ==
    /\ pc = "crc.done"
    /\ args.data = Ascii123456789
    /\ ret.crc = 36974

(***************************************************************************)
(* Telecommand paths: the build-motd and build-sstv commands, and one run  *)
(* of the mission orchestrator against a ground station whose captures are *)
(* drawn from a small set of recordings and whose requests may fail.       *)
(* ret holds the locals of the run and its record: steps (the requests     *)
(* made, in order), used (the telecommand packets written out or sent for  *)
(* uplink) and verified (the packets verify_telecommand has been run on).  *)
(***************************************************************************)
MotdHi == <<104, 105>>                  \* "hi"
MotdDemo == <<68, 69, 77, 79>>          \* "DEMO"
MotdTooLong == Repeat(233, 128)         \* 128 x U+00E9: 256 bytes of UTF-8

\* a TL payload with the fixed fields of S1 after the sequence
TlPayload(sequence, motd) ==
    <<84, 76>> \o SubSeq(pack_HI(0, sequence), 3, 6) \o SubSeq(S1Fixed, 5, Len(S1Fixed))
    \o <<Len(motd)>> \o motd

\* the AX.25 frame the satellite sends for a TL record
TlFrame(sequence, motd) == wrap_ax25(TlPayload(sequence, motd), HA7FLR, GROUND).val

\* the bit stream sent for the frames from index i on: each frame with its
\* FCS, stuffed, followed by two flags
RECURSIVE DownlinkBits(_, _)
DownlinkBits(frames, i) ==
    IF i > Len(frames) THEN <<>>
    ELSE LET fcs == crc16_x25(frames[i])
         IN bitstuff(bytes_to_bits_lsb_first(frames[i] \o <<fcs % 256, fcs \div 256>>))
            \o bytes_to_bits_lsb_first(Repeat(AX25_FLAG, 2))
            \o DownlinkBits(frames, i + 1)

\* a recording of a 9600 baud G3RUH/NRZI downlink, one sample per bit, that
\* carries the frames between flags (the transmitter scrambles with the
\* feedback form, which the decoder's variant-0 pass undoes)
Downlink(frames) ==
    LET bits == bytes_to_bits_lsb_first(Repeat(AX25_FLAG, 4)) \o DownlinkBits(frames, 1)
        levels == nrzi_encode(g3ruh_descramble(bits, 1), 1)
    IN Wav(2, 1, DEFAULT_BAUD,
           [k \in 1..Len(levels) |->
               IF levels[k] # 0 THEN DEFAULT_AMPLITUDE ELSE -DEFAULT_AMPLITUDE])

Silence == Wav(2, 1, DEFAULT_BAUD, Repeat(0, 64))

CaptureFrames ==
    { <<TlFrame(<<0, 7>>, MotdDemo)>>,
      <<TlFrame(<<0, 8>>, MotdHi)>>,
      <<TlFrame(<<0, 8>>, MotdHi), TlFrame(<<0, 9>>, MotdDemo)>>,
      <<TlFrame(<<65535, 65535>>, MotdDemo)>>,
      <<Repeat(0, 16)>> }

Captures == {Silence} \cup { Downlink(frames) : frames \in CaptureFrames }

Run ==
    [steps |-> <<>>, used |-> <<>>, verified |-> {}, exit |-> <<>>, out |-> <<>>,
     tl0 |-> <<>>, seq |-> <<>>, tl1 |-> <<>>, tl_after_motd |-> <<>>, sstv_seq |-> <<>>]

Step(op, file, ok) == [op |-> op, file |-> file, ok |-> ok]

CliSequences == { <<0, 7>>, <<65535, 65535>>, <<65536, 0>>, <<-1, 65535>> }
CliMotds == { <<>>, MotdHi, MotdTooLong }
CliCallsigns == { GROUND, HA7FLR, <<84, 79, 79, 76, 79, 78, 71>> }

InitUplink ==
    /\ ret = Run
    /\ \/ /\ pc = "cli.build_motd"
          /\ args \in { [sequence |-> q, motd |-> m, ax25 |-> a, src |-> sc, dst |-> dc] :
                          q \in CliSequences, m \in CliMotds, a \in BOOLEAN,
                          sc \in CliCallsigns, dc \in CliCallsigns }
       \/ /\ pc = "cli.build_sstv"
          /\ args \in { [sequence |-> q, ax25 |-> a, src |-> sc, dst |-> dc] :
                          q \in CliSequences, a \in BOOLEAN,
                          sc \in CliCallsigns, dc \in CliCallsigns }
       \/ /\ pc = "mission.start"
          /\ args \in { [base_url |-> u, motd |-> m, allow_sstv_without_motd |-> a] :
                          u \in BOOLEAN, m \in {MotdHi, MotdTooLong}, a \in BOOLEAN }

\* the end of cmd_build_motd and cmd_build_sstv: the output is written
CmdBuildWrite(r, packet, out) ==
    IF ~out.ok THEN [r EXCEPT !.exit = <<out.err>>]
    ELSE [r EXCEPT !.out = <<out.val>>, !.used = Append(@, packet), !.exit = <<"0">>]

\* the part of cmd_build_motd and cmd_build_sstv after verify_telecommand
\* returned err
CmdBuildVerified(r, packet, err) ==
    IF err # None
    THEN [r EXCEPT !.exit = <<"SystemExit: internal error: produced invalid telecommand">>]
    ELSE CmdBuildWrite(r, packet, IF args.ax25 THEN wrap_ax25(packet, args.src, args.dst)
                                  ELSE Ok(packet))

\* the part of cmd_build_motd and cmd_build_sstv after the build: verify,
\* wrap, write
CmdBuildFinish(tc) ==
    IF ~tc.ok THEN [ret EXCEPT !.exit = <<tc.err>>]
    ELSE CmdBuildVerified([ret EXCEPT !.verified = @ \cup {tc.val}], tc.val,
                          verify_telecommand(tc.val))

\* cli.cmd_build_motd
CmdBuildMotd ==
    /\ pc = "cli.build_motd"
    /\ ret' = CmdBuildFinish(build_set_motd(args.sequence, args.motd))
    /\ pc' = "cli.exit"
    /\ UNCHANGED args

\* cli.cmd_build_sstv
CmdBuildSstv ==
    /\ pc = "cli.build_sstv"
    /\ ret' = CmdBuildFinish(build_sstv(args.sequence))
    /\ pc' = "cli.exit"
    /\ UNCHANGED args

\* The steps of mission_cli.main. Each main_* operator gives the locals and
\* the record of the run after the step; the run has ended when exit is set.

\* the base URL check, then client.wait_for_elevation(...), which returns or
\* times out
main_wait_for_elevation(ok) ==
    IF ~args.base_url THEN [ret EXCEPT !.exit = <<"SystemExit: Missing --base-url">>]
    ELSE IF ok THEN [ret EXCEPT !.steps = Append(@, Step("wait_for_elevation", "", TRUE))]
    ELSE [ret EXCEPT !.steps = Append(@, Step("wait_for_elevation", "", FALSE)),
                     !.exit = <<"GroundTrackError: Timed out waiting for elevation">>]

MissionWaitForElevation ==
    /\ pc = "mission.start"
    /\ \E ok \in BOOLEAN : ret' = main_wait_for_elevation(ok)
    /\ pc' = IF ret'.exit # <<>> THEN "mission.exit" ELSE "mission.rx_telemetry"
    /\ UNCHANGED args

\* a client.download_radio_wav(...) that raises
main_download_fails(file) ==
    [ret EXCEPT !.steps = Append(@, Step("download_radio_wav", file, FALSE)),
                !.exit = <<"GroundTrackError">>]

\* faulty variant: without a TL record the run goes on with sequence 0
main_rx_telemetry_tl0_NoExit(r, tl0) ==
    IF tl0 = <<>>
    THEN [r EXCEPT !.seq = <<0, 0>>]
    ELSE [r EXCEPT !.tl0 = tl0, !.seq = tl0[1].sequence]

\* after the first capture: no TL record ends the run, else seq is its sequence
main_rx_telemetry_tl0(r, tl0) ==
    IF tl0 = <<>>
    THEN [r EXCEPT !.exit = <<"SystemExit: No decodable TL telemetry found in the capture">>]
    ELSE [r EXCEPT !.tl0 = tl0, !.seq = tl0[1].sequence]

main_rx_telemetry_demod(r, demod) ==
    IF ~demod.ok THEN [r EXCEPT !.exit = <<demod.err>>]
    ELSE main_rx_telemetry_tl0(r, find_latest_tl(demod.val.frames))

\* capture rx_telemetry, demodulate, pick the latest TL record
main_rx_telemetry(wav) ==
    main_rx_telemetry_demod(
        [ret EXCEPT !.steps = Append(@, Step("download_radio_wav", "rx_telemetry", TRUE))],
        demod_wav_to_ax25_frames(wav, DEFAULT_BAUD))

MissionRxTelemetry ==
    /\ pc = "mission.rx_telemetry"
    /\ \/ ret' = main_download_fails("rx_telemetry")
       \/ \E wav \in Captures : ret' = main_rx_telemetry(wav)
    /\ pc' = IF ret'.exit # <<>> THEN "mission.exit" ELSE "mission.tx_motd"
    /\ UNCHANGED args

\* upload of the telecommand packet as file, once wrapped and modulated
main_upload(r, packet, tx_wav, file, ok) ==
    IF ~tx_wav.ok THEN [r EXCEPT !.exit = <<tx_wav.err>>]
    ELSE IF ok THEN [r EXCEPT !.steps = Append(@, Step("upload_radio_wav", file, TRUE)),
                              !.used = Append(@, packet)]
    ELSE [r EXCEPT !.steps = Append(@, Step("upload_radio_wav", file, FALSE)),
                   !.used = Append(@, packet),
                   !.exit = <<"GroundTrackError: Upload failed">>]

\* mod_ax25_frame_to_wav(frame, tx_wav) with the default parameters
main_mod(ax25) ==
    IF ~ax25.ok THEN ax25
    ELSE mod_ax25_frame_to_wav(ax25.val, DEFAULT_BAUD, DEFAULT_FS, DEFAULT_AMPLITUDE,
             DEFAULT_PRE_FLAGS, DEFAULT_POST_FLAGS, 0, DEFAULT_INITIAL_LEVEL)

\* wrap, modulate and upload a built telecommand tc as file
main_uplink(r, tc, file, ok) ==
    IF ~tc.ok THEN [r EXCEPT !.exit = <<tc.err>>]
    ELSE main_upload(r, tc.val, main_mod(wrap_uplink_ax25(tc.val)), file, ok)

\* build the Set-MotD telecommand at seq, wrap, modulate, upload
main_tx_motd(ok) ==
    main_uplink(ret, build_set_motd(ret.seq, args.motd), "tx_motd", ok)

MissionTxMotd ==
    /\ pc = "mission.tx_motd"
    /\ \E ok \in BOOLEAN : ret' = main_tx_motd(ok)
    /\ pc' = IF ret'.exit # <<>> THEN "mission.exit" ELSE "mission.rx_post"
    /\ UNCHANGED args

\* faulty variant: the run goes on whether or not the MotD was verified
main_rx_post_tl1_NoExit(r, tl1) ==
    IF tl1 = <<>> THEN r
    ELSE IF tl1[1].motd = args.motd
    THEN [r EXCEPT !.tl1 = tl1, !.seq = tl1[1].sequence, !.tl_after_motd = tl1]
    ELSE [r EXCEPT !.tl1 = tl1, !.seq = tl1[1].sequence]

\* after the post-TX capture: seq follows the latest record, and the MotD is
\* verified when that record carries the requested motd
main_rx_post_tl1(r, tl1) ==
    IF tl1 = <<>>
    THEN IF args.allow_sstv_without_motd THEN r
         ELSE [r EXCEPT !.exit = <<"SystemExit: MotD could not be verified as updated">>]
    ELSE IF tl1[1].motd = args.motd
    THEN [r EXCEPT !.tl1 = tl1, !.seq = tl1[1].sequence, !.tl_after_motd = tl1]
    ELSE IF args.allow_sstv_without_motd
    THEN [r EXCEPT !.tl1 = tl1, !.seq = tl1[1].sequence]
    ELSE [r EXCEPT !.tl1 = tl1, !.seq = tl1[1].sequence,
                   !.exit = <<"SystemExit: MotD could not be verified as updated">>]

main_rx_post_demod(r, post_demod) ==
    IF ~post_demod.ok THEN [r EXCEPT !.exit = <<post_demod.err>>]
    ELSE main_rx_post_tl1(r, find_latest_tl(post_demod.val.frames))

\* capture rx_post_motd, demodulate, check that the MotD was updated
main_rx_post(wav) ==
    main_rx_post_demod(
        [ret EXCEPT !.steps = Append(@, Step("download_radio_wav", "rx_post_motd", TRUE))],
        demod_wav_to_ax25_frames(wav, DEFAULT_BAUD))

MissionRxPost ==
    /\ pc = "mission.rx_post"
    /\ \/ ret' = main_download_fails("rx_post_motd")
       \/ \E wav \in Captures : ret' = main_rx_post(wav)
    /\ pc' = IF ret'.exit # <<>> THEN "mission.exit" ELSE "mission.tx_sstv"
    /\ UNCHANGED args

\* faulty variant: the SSTV telecommand is always built at seq + 1
main_tx_sstv_AlwaysNext(ok) ==
    LET sstv_seq == U32Inc(ret.seq)
    IN main_uplink([ret EXCEPT !.sstv_seq = sstv_seq], build_sstv(sstv_seq), "tx_sstv", ok)

\* build the SSTV telecommand, wrap, modulate, upload
main_tx_sstv(ok) ==
    LET sstv_seq == IF ret.tl_after_motd # <<>> THEN ret.tl_after_motd[1].sequence
                    ELSE U32Inc(ret.seq)
    IN main_uplink([ret EXCEPT !.sstv_seq = sstv_seq], build_sstv(sstv_seq), "tx_sstv", ok)

MissionTxSstv ==
    /\ pc = "mission.tx_sstv"
    /\ \E ok \in BOOLEAN : ret' = main_tx_sstv(ok)
    /\ pc' = IF ret'.exit # <<>> THEN "mission.exit" ELSE "mission.rx_sstv"
    /\ UNCHANGED args

\* capture rx_sstv and return 0
main_rx_sstv(ok) ==
    IF ok THEN [ret EXCEPT !.steps = Append(@, Step("download_radio_wav", "rx_sstv", TRUE)),
                           !.exit = <<"0">>]
    ELSE main_download_fails("rx_sstv")

MissionRxSstv ==
    /\ pc = "mission.rx_sstv"
    /\ \E ok \in BOOLEAN : ret' = main_rx_sstv(ok)
    /\ pc' = "mission.exit"
    /\ UNCHANGED args

NextUplink ==
    \/ CmdBuildMotd \/ CmdBuildSstv
    \/ MissionWaitForElevation \/ MissionRxTelemetry \/ MissionTxMotd
    \/ MissionRxPost \/ MissionTxSstv \/ MissionRxSstv

SpecUplink == InitUplink /\ [][NextUplink]_vars

(***************************************************************************)
(* Telecommand path claim                                                  *)
(***************************************************************************)
\* C4: on every path that builds a telecommand (the build-motd and
\* build-sstv commands and the mission orchestrator), verify_telecommand is
\* run on the built packet before the packet is returned or used for uplink.
\* As stated by the claim; the two commands verify, the orchestrator uploads
\* both of its telecommands without verifying them.
C4_VerifiedBeforeUse ==
    \A k \in 1..Len(ret.used) : ret.used[k] \in ret.verified

\* the requests of a complete run, in order
C20_Order ==
    << <<"wait_for_elevation", "">>,
       <<"download_radio_wav", "rx_telemetry">>,
       <<"upload_radio_wav", "tx_motd">>,
       <<"download_radio_wav", "rx_post_motd">>,
       <<"upload_radio_wav", "tx_sstv">>,
       <<"download_radio_wav", "rx_sstv">> >>

\* C20: the mission orchestrator's externally visible steps always occur in
\* the fixed order wait-for-elevation, RX telemetry capture, Set-MotD upload,
\* post-TX RX capture, SSTV upload, RX SSTV capture, each at most once per
\* run; every run is a prefix of that sequence, and no upload happens unless a
\* TL telemetry record was decoded from the first capture.
C20_StepOrder ==
    /\ Len(ret.steps) <= Len(C20_Order)
    /\ \A k \in 1..Len(ret.steps) :
          <<ret.steps[k].op, ret.steps[k].file>> = C20_Order[k]
    /\ \A k \in 1..(Len(ret.steps) - 1) : ret.steps[k].ok
    /\ (\E k \in 1..Len(ret.steps) : ret.steps[k].op = "upload_radio_wav")
          => ret.tl0 # <<>>

\* a complete run: all six steps, both uploads after a TL record with
\* sequence 8 was decoded from the first capture
C20_Witness ==
    /\ pc = "mission.exit"
    /\ ret.exit = <<"0">>
    /\ Len(ret.steps) = 6
    /\ ret.tl0 # <<>>
    /\ ret.tl0[1].sequence = <<0, 8>>
    /\ Len(ret.used) = 2

\* the MotD was verified: the latest record of the post-TX capture carries the
\* requested motd
C21_Verified == ret.tl1 # <<>> /\ ret.tl1[1].motd = args.motd

\* the sequence field of a telecommand packet, as limbs <<hi, lo>>
C21_PacketSequence(packet) ==
    <<packet[3] * 256 + packet[4], packet[5] * 256 + packet[6]>>

\* the latest sequence seen in telemetry: of the post-TX record when there is
\* one, else of the record of the first capture
C21_LatestSequence == IF ret.tl1 # <<>> THEN ret.tl1[1].sequence ELSE ret.tl0[1].sequence

\* w + 1 modulo 2^32 for w = <<hi, lo>>
C21_Next(w) == IF w[2] < 65535 THEN <<w[1], w[2] + 1>>
               ELSE IF w[1] < 65535 THEN <<w[1] + 1, 0>> ELSE <<0, 0>>

\* C21 as stated: whenever the mission orchestrator builds the SSTV
\* telecommand, its sequence number is the verified sequence, i.e. the
\* sequence of the post-TX telemetry record whose motd equals the requested
\* MotD.
C21_Original ==
    Len(ret.used) = 2
    => /\ C21_Verified
       /\ C21_PacketSequence(ret.used[2]) = ret.tl1[1].sequence

\* C21, amended: whenever the mission orchestrator builds the SSTV
\* telecommand, its sequence number is the verified sequence (the sequence of
\* the post-TX telemetry record whose motd equals the requested MotD) when
\* the MotD was verified; when it was not, --allow-sstv-without-motd was given
\* and the sequence number is the latest telemetry sequence plus one, modulo
\* 2^32.
C21_SstvSequence ==
    Len(ret.used) = 2
    => /\ ret.used[2][1] = 85 /\ ret.used[2][2] = 51
       /\ IF C21_Verified
          THEN C21_PacketSequence(ret.used[2]) = ret.tl1[1].sequence
          ELSE /\ args.allow_sstv_without_motd
               /\ C21_PacketSequence(ret.used[2]) = C21_Next(C21_LatestSequence)

\* the post-TX capture carries sequence 0xFFFFFFFF with another motd: with the
\* flag the SSTV telecommand is built at sequence 0
C21_Witness ==
    /\ Len(ret.used) = 2
    /\ ~C21_Verified
    /\ ret.tl1 # <<>>
    /\ ret.tl1[1].sequence = <<65535, 65535>>
    /\ C21_PacketSequence(ret.used[2]) = <<0, 0>>

\* C22: the mission orchestrator never uploads the SSTV telecommand when the
\* MotD was not verified (no decodable post-TX TL record, or the
\* highest-sequence post-TX record's motd differs from the requested one)
\* unless --allow-sstv-without-motd was given; in that unverified case without
\* the flag the run ends after the post-check capture.
C22_NoSstvUnverified ==
    /\ Len(ret.steps) >= 5 => (C21_Verified \/ args.allow_sstv_without_motd)
    /\ (/\ Len(ret.steps) >= 4
        /\ ret.steps[4].ok
        /\ ~C21_Verified
        /\ ~args.allow_sstv_without_motd)
       => /\ pc = "mission.exit"
          /\ Len(ret.steps) = 4
          /\ Len(ret.used) = 1
          /\ ret.exit = <<"SystemExit: MotD could not be verified as updated">>

\* the post-TX capture decodes to records whose latest carries another motd
C22_Witness ==
    /\ pc = "mission.exit"
    /\ Len(ret.steps) = 4
    /\ ret.steps[4].ok
    /\ ~args.allow_sstv_without_motd
    /\ ret.tl1 # <<>>
    /\ ret.tl1[1].sequence = <<0, 9>>
    /\ ret.tl1[1].motd # args.motd

(***************************************************************************)
(* Framer and modem parameters: demodulate a WAV with a chosen baud rate,  *)
(* modulate a frame with a chosen baud and sample rate, extract the frames *)
(* of a bit stream.                                                        *)
(***************************************************************************)
MaxNoiseLen == 6        \* longest noise recording, in samples

\* short recordings of full-scale noise, at one and at two samples per bit
NoiseWavs ==
    { Wav(2, 1, fs, smp) :
        fs \in {DEFAULT_BAUD, 2 * DEFAULT_BAUD},
        smp \in BytesUpTo({-DEFAULT_AMPLITUDE, DEFAULT_AMPLITUDE}, MaxNoiseLen) }

\* every sample of a recording repeated, at twice the sample rate
Upsample2(wav) ==
    Wav(wav.sampwidth, wav.nchannels, 2 * wav.framerate,
        [k \in 1..(2 * Len(wav.samples)) |-> wav.samples[(k + 1) \div 2]])

\* recordings whose header the modem refuses or may refuse: 8-bit, stereo,
\* sample rates off the baud rate by one
OddWavs ==
    { Wav(1, 1, DEFAULT_BAUD, Repeat(0, 64)),
      Wav(2, 2, DEFAULT_BAUD, Repeat(0, 64)),
      Wav(1, 2, DEFAULT_BAUD + 1, Repeat(0, 64)),
      Wav(2, 1, DEFAULT_BAUD + 1, Repeat(0, 64)),
      Wav(2, 1, DEFAULT_FS + 1, Repeat(0, 64)),
      Wav(2, 1, 2000001, Repeat(0, 64)),
      Wav(2, 1, 1, Repeat(0, 64)) }

DemodBauds == { DEFAULT_BAUD, DEFAULT_BAUD \div 2, 2000000, 0 }

ModSampleRates == { DEFAULT_BAUD, 2 * DEFAULT_BAUD, DEFAULT_BAUD + 1, DEFAULT_FS + 1, 2000001 }

\* the stuffed bits of a frame and its FCS, the FCS changed by xor with delta
HdlcBody(frame, delta) ==
    LET fcs == BitXor(crc16_x25(frame), delta)
    IN bitstuff(bytes_to_bits_lsb_first(frame \o <<fcs % 256, fcs \div 256>>))

\* a flag, then each item's body followed by a flag
HdlcStream(items) ==
    bytes_to_bits_lsb_first(<<AX25_FLAG>>)
    \o Concat([k \in 1..Len(items) |->
                  HdlcBody(items[k].frame, items[k].delta)
                  \o bytes_to_bits_lsb_first(<<AX25_FLAG>>)])

\* a recording like Downlink of one frame whose FCS was changed in one bit
CorruptDownlink ==
    LET bits == bytes_to_bits_lsb_first(Repeat(AX25_FLAG, 4))
                \o HdlcStream(<<[frame |-> UiFrame20, delta |-> 1]>>)
                \o bytes_to_bits_lsb_first(<<AX25_FLAG>>)
        levels == nrzi_encode(g3ruh_descramble(bits, 1), 1)
    IN Wav(2, 1, DEFAULT_BAUD,
           [k \in 1..Len(levels) |->
               IF levels[k] # 0 THEN DEFAULT_AMPLITUDE ELSE -DEFAULT_AMPLITUDE])

\* two recordings one after the other with one sample between them, so that
\* the bit windows of the second start one sample later than those of the
\* first
Joined(w1, w2) ==
    Wav(2, 1, w1.framerate, w1.samples \o <<DEFAULT_AMPLITUDE>> \o w2.samples)

\* recordings at two samples per bit that carry one frame at phase 0 and two
\* at phase 1, or two at phase 0 and one at phase 1, and a recording at four
\* samples per bit
PhaseWavs ==
    { Joined(Upsample2(Downlink(<<UiFrame20>>)),
             Upsample2(Downlink(<<UiFrame20, Repeat(0, 16)>>))),
      Joined(Upsample2(Downlink(<<UiFrame20, Repeat(0, 16)>>)),
             Upsample2(Downlink(<<UiFrame20>>))),
      Upsample2(Upsample2(Downlink(<<UiFrame20>>))) }

DemodWavs ==
    Captures \cup NoiseWavs \cup OddWavs \cup { CorruptDownlink } \cup PhaseWavs
    \cup { Upsample2(Downlink(<<TlFrame(<<0, 7>>, MotdDemo)>>)) }

HdlcItems ==
    { [frame |-> f, delta |-> dl] :
        f \in { UiFrame20, Repeat(255, 16), Repeat(0, 16), Repeat(0, 15), Repeat(255, 15) },
        dl \in { 0, 1, 256 } }

\* streams of one and of two frames between flags, and streams of flags alone
HdlcStreams ==
    { HdlcStream(<<x>>) : x \in HdlcItems }
    \cup { HdlcStream(<<x, y>>) : x \in HdlcItems, y \in HdlcItems }
    \cup { bytes_to_bits_lsb_first(Repeat(AX25_FLAG, n)) : n \in 0..3 }
    \cup { <<0, 1, 1, 1, 1, 1, 1, 0, 1, 1, 1, 1, 1, 1, 0>> }

InitDemod ==
    /\ ret = None
    /\ \/ /\ pc = "demod.args"
          /\ args \in { [wav |-> w, baud |-> b] : w \in DemodWavs, b \in DemodBauds }
       \/ /\ pc = "mod.args"
          /\ args \in { [frame |-> f, baud |-> b, fs |-> r] :
                          f \in { Repeat(0, 16) }, b \in DemodBauds, r \in ModSampleRates }
       \/ /\ pc = "hdlc.args"
          /\ args \in { [bits |-> b] : b \in HdlcStreams }

\* demod_wav_to_ax25_frames(path, baud=b)
DemodParams ==
    /\ pc = "demod.args"
    /\ ret' = [demod |-> demod_wav_to_ax25_frames(args.wav, args.baud)]
    /\ pc' = "demod.done"
    /\ UNCHANGED args

\* what a call of mod_ax25_frame_to_wav leaves behind: whether it raised, and
\* the files written at out_path (the file is created and written by the
\* last statements only, after every raise)
mod_outcome(wav) == [raised |-> ~wav.ok, written |-> IF wav.ok THEN <<wav.val>> ELSE <<>>]

\* mod_ax25_frame_to_wav(frame, out_path, baud=b, fs=r)
ModParams ==
    /\ pc = "mod.args"
    /\ ret' = mod_outcome(
                  mod_ax25_frame_to_wav(args.frame, args.baud, args.fs, DEFAULT_AMPLITUDE,
                      DEFAULT_PRE_FLAGS, DEFAULT_POST_FLAGS, 0, DEFAULT_INITIAL_LEVEL))
    /\ pc' = "mod.done"
    /\ UNCHANGED args

\* _extract_hdlc_frames(bits)
ExtractHdlc ==
    /\ pc = "hdlc.args"
    /\ ret' = [frames |-> extract_hdlc_frames(args.bits)]
    /\ pc' = "hdlc.done"
    /\ UNCHANGED args

NextDemod == DemodParams \/ ModParams \/ ExtractHdlc

SpecDemod == InitDemod /\ [][NextDemod]_vars

(***************************************************************************)
(* Claims about the framer and the modem parameters (checked under         *)
(* SpecDemod)                                                              *)
(***************************************************************************)
\* some (phase, inverted, variant) pass over the samples yields a frame
C13_SomePassYields(samples, spb_i) ==
    \E phase \in 0..(spb_i - 1) : \E inverted \in BOOLEAN : \E variant \in {0, 1} :
        demod_pass(samples, spb_i, phase, inverted, variant).frames # <<>>

\* C13: when no (phase, inverted, variant) combination yields a validated
\* frame, demod_wav_to_ax25_frames returns normally (no error) with frames
\* empty, chosen_phase = 0, inverted = false and descramble_variant = 0; and
\* it returns an empty frame list only in that case.  (For a 16-bit mono
\* recording whose sample rate is a multiple of the baud rate.)
C13_EmptyResult ==
    (/\ pc = "demod.done"
     /\ args.wav.sampwidth = 2 /\ args.wav.nchannels = 1
     /\ args.baud > 0 /\ args.wav.framerate % args.baud = 0)
    => /\ ret.demod.ok
       /\ IF C13_SomePassYields(args.wav.samples, args.wav.framerate \div args.baud)
          THEN ret.demod.val.frames # <<>>
          ELSE ret.demod.val = [frames |-> <<>>, chosen_phase |-> 0,
                                inverted |-> FALSE, descramble_variant |-> 0]

\* the (phase, inverted, variant) combinations of the search
C25_Combinations(spb_i) ==
    { <<phase, inverted, variant>> :
        phase \in 0..(spb_i - 1), inverted \in BOOLEAN, variant \in {0, 1} }

\* combination c comes before combination e in iteration order: phase
\* ascending, inverted = false before true, variant 0 before 1
C25_Before(c, e) ==
    \/ c[1] < e[1]
    \/ c[1] = e[1] /\ ~c[2] /\ e[2]
    \/ c[1] = e[1] /\ c[2] = e[2] /\ c[3] < e[3]

\* the frames of combination c
C25_Frames(samples, spb_i, c) == demod_pass(samples, spb_i, c[1], c[2], c[3]).frames

\* result r is a first combination with the most frames, with its frames
C25_IsFirstMaximum(samples, spb_i, r) ==
    LET chosen == <<r.chosen_phase, r.inverted, r.descramble_variant>>
    IN /\ chosen \in C25_Combinations(spb_i)
       /\ r.frames = C25_Frames(samples, spb_i, chosen)
       /\ \A c \in C25_Combinations(spb_i) :
             /\ Len(C25_Frames(samples, spb_i, c)) <= Len(r.frames)
             /\ Len(C25_Frames(samples, spb_i, c)) = Len(r.frames) => ~C25_Before(c, chosen)

\* C25: the returned (chosen_phase, inverted, descramble_variant) is a
\* combination whose validated-frame count is the maximum over all
\* samples_per_bit x 2 x 2 combinations, and among the combinations reaching
\* that maximum it is the first in iteration order (phase ascending,
\* inverted = false before true, variant 0 before 1); the returned frames are
\* exactly those of that combination.  (When some combination yields a frame.)
C25_SearchSelection ==
    (/\ pc = "demod.done"
     /\ ret.demod.ok
     /\ ret.demod.val.frames # <<>>)
    => C25_IsFirstMaximum(args.wav.samples, spb_round(args.wav.framerate, args.baud),
                          ret.demod.val)

\* phase 0 yields one frame and phase 1 yields two: phase 1 is chosen
C25_Witness ==
    /\ pc = "demod.done"
    /\ ret.demod.ok
    /\ ret.demod.val.chosen_phase = 1
    /\ Len(ret.demod.val.frames) = 2
    /\ Len(C25_Frames(args.wav.samples, 2, <<0, FALSE, 0>>)) = 1

\* C28: for every input WAV, the result of demod_wav_to_ax25_frames has
\* inverted = false: the inverted = true pass of any phase and variant yields
\* exactly the same frames as the inverted = false pass.
C28_NeverInverted ==
    (pc = "demod.done" /\ ret.demod.ok)
    => /\ ret.demod.val.inverted = FALSE
       /\ \A phase \in 0..(spb_round(args.wav.framerate, args.baud) - 1) :
          \A variant \in {0, 1} :
             demod_pass(args.wav.samples, spb_round(args.wav.framerate, args.baud),
                        phase, TRUE, variant).frames
             = demod_pass(args.wav.samples, spb_round(args.wav.framerate, args.baud),
                          phase, FALSE, variant).frames

\* a recording whose frames are found by the pass of the chosen phase and
\* variant with the levels inverted as well
C28_Witness ==
    /\ pc = "demod.done"
    /\ ret.demod.ok
    /\ ret.demod.val.frames # <<>>
    /\ demod_pass(args.wav.samples, spb_round(args.wav.framerate, args.baud),
                  ret.demod.val.chosen_phase, TRUE, ret.demod.val.descramble_variant).frames
       = ret.demod.val.frames

\* C26: every frame yielded by _extract_hdlc_frames is long enough to be a
\* 2-address AX.25 frame: the yielded frame (FCS removed) has at least
\* 7 + 7 + 2 = 16 bytes and never fails the length check of AX25Frame.decode.
\* As stated by the claim; the framer compares the number of stuffed bits
\* between the flags with 8 * 18, so a shorter frame with enough stuffed
\* zeros is yielded.
C26_LongEnough ==
    pc = "hdlc.done"
    => \A k \in 1..Len(ret.frames) :
          /\ Len(ret.frames[k]) >= 7 + 7 + 2
          /\ AX25Frame_decode(ret.frames[k]) # Err("ValueError: Frame too short to be AX.25")

\* a recording that carries a frame whose FCS is wrong, and nothing else
C13_Witness ==
    /\ pc = "demod.done"
    /\ args.wav = CorruptDownlink
    /\ args.baud = DEFAULT_BAUD
    /\ ret.demod.ok
    /\ ret.demod.val.frames = <<>>
    /\ ret.demod.val.descramble_variant = 0

\* C14: demod_wav_to_ax25_frames raises, returning no result, whenever the
\* WAV is not 16-bit, is not mono, or its sample rate is not an integer
\* multiple of the baud rate; mod_ax25_frame_to_wav raises when fs is not an
\* integer multiple of baud, before any output file is created or written.
\* As stated by the claim; the demodulator's test is a float comparison with
\* a tolerance of 1e-6, which a baud rate above 10^6 lets a ratio one part in
\* baud off an integer pass.
C14_RejectsBadParameters ==
    /\ (/\ pc = "demod.done"
        /\ \/ args.wav.sampwidth # 2
           \/ args.wav.nchannels # 1
           \/ (args.baud > 0 /\ args.wav.framerate % args.baud # 0))
       => ~ret.demod.ok
    /\ (pc = "mod.done" /\ args.baud > 0 /\ args.fs % args.baud # 0)
       => (ret.raised /\ ret.written = <<>>)

\* the flag pattern starts at the 0-based position i of the stream
C19_FlagAt(bits, i) ==
    /\ i + 8 <= Len(bits)
    /\ SubSeq(bits, i + 1, i + 8) = <<0, 1, 1, 1, 1, 1, 1, 0>>

\* a and b are adjacent flag positions of the stream
C19_Adjacent(bits, a, b) ==
    /\ a < b
    /\ C19_FlagAt(bits, a) /\ C19_FlagAt(bits, b)
    /\ \A i \in (a + 1)..(b - 1) : ~C19_FlagAt(bits, i)

\* the bytes of the unstuffed candidate between the flags at a and b
C19_Data(bits, a, b) == bits_to_bytes_lsb_first(bitunstuff(SubSeq(bits, a + 9, b)))

\* the candidate between the flags at a and b is long enough and its last two
\* bytes, read little-endian, are the CRC of the bytes before them
C19_FcsOk(bits, a, b) ==
    /\ b - (a + 8) >= 144
    /\ LET data == C19_Data(bits, a, b)
       IN /\ Len(data) >= 2
          /\ data[Len(data) - 1] + 256 * data[Len(data)]
                = crc16_x25(SubSeq(data, 1, Len(data) - 2))

C19_Pairs(bits) ==
    { ab \in (0..Len(bits)) \X (0..Len(bits)) : C19_Adjacent(bits, ab[1], ab[2]) }

\* C19: every frame returned by the HDLC extractor passed the FCS check: each
\* returned frame f was taken from between two adjacent flags, and the two
\* bytes that followed f in the unstuffed candidate, read little-endian,
\* equal crc16_x25(f); a candidate whose FCS differs is never returned and
\* raises no error.
C19_FcsChecked ==
    pc = "hdlc.done"
    => /\ \A k \in 1..Len(ret.frames) :
             \E ab \in C19_Pairs(args.bits) :
                 /\ C19_FcsOk(args.bits, ab[1], ab[2])
                 /\ LET data == C19_Data(args.bits, ab[1], ab[2])
                    IN ret.frames[k] = SubSeq(data, 1, Len(data) - 2)
       /\ Len(ret.frames)
             = Cardinality({ ab \in C19_Pairs(args.bits) : C19_FcsOk(args.bits, ab[1], ab[2]) })

\* two candidates, the first with its FCS changed in one bit: only the second
\* is returned
C19_Witness ==
    /\ pc = "hdlc.done"
    /\ args.bits = HdlcStream(<<[frame |-> Repeat(255, 16), delta |-> 1],
                                [frame |-> UiFrame20, delta |-> 0]>>)
    /\ ret.frames = <<UiFrame20>>

(***************************************************************************)
(* cli.py: demod-wav                                                       *)
(***************************************************************************)
HexDigits == <<"0", "1", "2", "3", "4", "5", "6", "7", "8", "9", "a", "b", "c", "d", "e", "f">>

\* bytes.hex(): two lowercase digits per byte
bytes_hex(data) ==
    Concat([k \in 1..Len(data) |->
               <<HexDigits[(data[k] \div 16) + 1], HexDigits[(data[k] % 16) + 1]>>])

\* a printed line
Line(kind, val) == [kind |-> kind, val |-> val]

\* the try block of the --decode-tl loop for one frame: the line printed, or
\* nothing when the AX.25 parse or the telemetry parse raised
cmd_demod_wav_try(fr) ==
    LET tl == find_latest_tl_try(AX25Frame_decode(fr))
    IN IF tl.ok THEN <<Line("telemetry", tl.val)>> ELSE <<>>

\* the end of the --decode-tl block: the lines of the decoded records, or the
\* notice when there is none (decoded == 0)
cmd_demod_wav_decoded(tls) ==
    IF tls = <<>> THEN <<Line("text", "No decodable TL telemetry found in these frames.")>>
    ELSE tls

\* the lines printed after the summary for a non-empty frame list
cmd_demod_wav_lines(frames, print_hex, decode_tl) ==
    (IF print_hex THEN [k \in 1..Len(frames) |-> Line("hex", bytes_hex(frames[k]))]
     ELSE <<>>)
    \o (IF decode_tl
        THEN cmd_demod_wav_decoded(
                 Concat([k \in 1..Len(frames) |-> cmd_demod_wav_try(frames[k])]))
        ELSE <<>>)

\* the summary printed first
cmd_demod_wav_summary(res) ==
    Line("summary", [frames |-> Len(res.frames), chosen_phase |-> res.chosen_phase,
                     inverted |-> res.inverted,
                     descramble_variant |-> res.descramble_variant])

\* cmd_demod_wav from the outcome of demod_wav_to_ax25_frames on: the
\* exception raised, or the exit status with the lines printed
cmd_demod_wav_print(res, print_hex, decode_tl) ==
    IF ~res.ok THEN res
    ELSE IF res.val.frames = <<>>
    THEN Ok([status |-> 0, out |-> <<cmd_demod_wav_summary(res.val)>>])
    ELSE Ok([status |-> 0,
             out |-> <<cmd_demod_wav_summary(res.val)>>
                     \o cmd_demod_wav_lines(res.val.frames, print_hex, decode_tl)])

cmd_demod_wav(wav, print_hex, decode_tl) ==
    cmd_demod_wav_print(demod_wav_to_ax25_frames(wav, DEFAULT_BAUD), print_hex, decode_tl)

(***************************************************************************)
(* Frames above the framer: the mission's latest-TL selection over a list  *)
(* of frames, and demod-wav over a recording that carries them.            *)
(***************************************************************************)
\* a UI frame whose payload starts with the TL packet type and ends early
TruncatedTlFrame == wrap_ax25(<<84, 76, 0, 0>>, HA7FLR, GROUND).val

\* frames with a valid FCS on the air: two TL records; a UI frame whose
\* payload is not a TL packet; a TL packet cut short; 16 zero bytes, whose
\* source address is not marked last
ParsedFrames ==
    { TlFrame(<<0, 7>>, MotdDemo), TlFrame(<<0, 9>>, MotdHi), UiFrame20,
      TruncatedTlFrame, Repeat(0, 16) }

FrameLists == BytesUpTo(ParsedFrames, 2)

InitFrames ==
    /\ ret = None
    /\ \/ /\ pc = "latest.args"
          /\ args \in { [ax25_frames |-> fl] : fl \in FrameLists }
       \/ /\ pc = "demod_wav.args"
          /\ args \in { [wav |-> Downlink(fl), print_hex |-> h, decode_tl |-> t] :
                          fl \in FrameLists, h \in BOOLEAN, t \in BOOLEAN }

\* _find_latest_tl(ax25_frames): no statement of it raises outside the try
\* block
FindLatestTl ==
    /\ pc = "latest.args"
    /\ ret' = [latest |-> Ok(find_latest_tl(args.ax25_frames))]
    /\ pc' = "latest.done"
    /\ UNCHANGED args

\* echoflare demod-wav WAV [--print-hex] [--decode-tl]
CmdDemodWav ==
    /\ pc = "demod_wav.args"
    /\ ret' = [res |-> demod_wav_to_ax25_frames(args.wav, DEFAULT_BAUD),
               run |-> cmd_demod_wav(args.wav, args.print_hex, args.decode_tl)]
    /\ pc' = "demod_wav.done"
    /\ UNCHANGED args

NextFrames == FindLatestTl \/ CmdDemodWav

SpecFrames == InitFrames /\ [][NextFrames]_vars

\* the AX.25 parse or the telemetry parse of the frame fails
C23_ParseFails(fr) == ~find_latest_tl_try(AX25Frame_decode(fr)).ok

\* C23: whenever a demodulated frame has a valid FCS but its AX.25 parse or
\* telemetry parse fails, that parse error propagates to the caller, for the
\* callers that decode demodulated frames (demod-wav --decode-tl and the
\* mission's latest-TL selection).
\* As stated by the claim; both callers catch every exception of the two
\* parses and go on with the next frame.
C23_ParseErrorPropagates ==
    /\ (/\ pc = "latest.done"
        /\ \E k \in 1..Len(args.ax25_frames) : C23_ParseFails(args.ax25_frames[k]))
       => ~ret.latest.ok
    /\ (/\ pc = "demod_wav.done"
        /\ args.decode_tl
        /\ ret.res.ok
        /\ \E k \in 1..Len(ret.res.val.frames) : C23_ParseFails(ret.res.val.frames[k]))
       => ~ret.run.ok

(***************************************************************************)
(* robot36_decode.py.  Times are held in units of 10^-4 s, so that          *)
(* Robot36Timings is integral.  The sync detector (band-pass filter,        *)
(* Hilbert transform, STFT peak tracking) is floating-point signal          *)
(* processing; a recording is held as its WAV header and the list of sync   *)
(* candidates the detector finds in it.                                     *)
(***************************************************************************)
\* int(round(n / d)) for n >= 0 and d > 0: round() takes a tie to the even
\* neighbour
RoundDiv(n, d) ==
    LET q == n \div d
        r == n % d
    IN IF 2 * r > d THEN q + 1
       ELSE IF 2 * r < d THEN q
       ELSE IF q % 2 = 0 THEN q ELSE q + 1

Max2(a, b) == IF a >= b THEN a ELSE b

Min2(a, b) == IF a <= b THEN a ELSE b

Abs(a) == IF a >= 0 THEN a ELSE -a

Robot36Timings == [sync_s |-> 90, porch_s |-> 30, y_s |-> 880, sep_s |-> 45, c_s |-> 440]

line_s(timings) ==
    timings.sync_s + timings.porch_s + timings.y_s + timings.sep_s + timings.c_s

\* sorted(set(int(x) for x in candidates))
sorted_set(candidates) ==
    LET srt == SortSeq(candidates, LAMBDA a, b : a < b)
        first(i) == i = 1 \/ srt[i] # srt[i - 1]
        keep == SelectSeq([i \in 1..Len(srt) |-> i], first)
    IN [k \in 1..Len(keep) |-> srt[keep[k]]] \o <<>>

\* np.bincount(bins, minlength=nb), as the sequence counts[1..nb] for the
\* bins 0..nb-1
bin_counts(cand, target, bin_w, nb) ==
    LET bins == [k \in 1..Len(cand) |-> Min2((cand[k] % target) \div bin_w, nb - 1)] \o <<>>
        count(b) == LET is(x) == x = b - 1 IN Len(SelectSeq(bins, is))
    IN [b \in 1..nb |-> count(b)] \o <<>>

\* int(np.argmax(counts)): the first bin with the largest count
argmax(counts) ==
    (CHOOSE b \in 1..Len(counts) :
        /\ \A c \in 1..Len(counts) : counts[c] <= counts[b]
        /\ \A c \in 1..(b - 1) : counts[c] < counts[b]) - 1

\* cand[phase_ok], or cand when fewer than 10 candidates are in phase
phase_cluster(cand, fs, target) ==
    LET bin_w == Max2(50, RoundDiv(2 * fs, 1000))
        nb == Max2(1, target \div bin_w)
        best_bin == argmax(bin_counts(cand, target, bin_w, nb))
        center == best_bin * bin_w + bin_w \div 2
        tol == Max2(200, RoundDiv(4 * fs, 1000))
        phase_ok(v) ==
            Abs((((v % target) - center + target \div 2) % target) - target \div 2) <= tol
        cand2 == SelectSeq(cand, phase_ok)
    IN IF Len(cand2) < 10 THEN cand ELSE cand2

\* int(np.searchsorted(a, v)) within the 0-based index range lo..hi: the
\* number of entries smaller than v
RECURSIVE searchsorted(_, _, _, _)
searchsorted(a, v, lo, hi) ==
    IF lo >= hi THEN lo
    ELSE LET mid == (lo + hi) \div 2
         IN IF a[mid + 1] < v THEN searchsorted(a, v, mid + 1, hi)
            ELSE searchsorted(a, v, lo, mid)

\* one pass of the loop over k: near is <<>> for None, else <<nearest, best_err>>
nearest_step(cand2, want, k, near) ==
    IF 0 <= k /\ k < Len(cand2)
    THEN LET v == cand2[k + 1]
             err == Abs(v - want)
         IN IF near = <<>> \/ err < near[2] THEN <<v, err>> ELSE near
    ELSE near

\* the loop over k in (j - 2, j - 1, j, j + 1, j + 2)
nearest_candidate(cand2, want, j) ==
    nearest_step(cand2, want, j + 2,
      nearest_step(cand2, want, j + 1,
        nearest_step(cand2, want, j,
          nearest_step(cand2, want, j - 1,
            nearest_step(cand2, want, j - 2, <<>>)))))

\* the chain after the nearest candidate was looked up: the loop is left
\* when there is none within step_tol, when it is not later than last, or
\* when the chain has 260 entries
extend_with(st, near, step_tol) ==
    IF near = <<>> \/ near[2] > step_tol THEN [st EXCEPT !.done = TRUE]
    ELSE IF near[1] <= st.last THEN [st EXCEPT !.done = TRUE]
    ELSE [chain |-> Append(st.chain, near[1]), last |-> near[1],
          done |-> Len(st.chain) + 1 >= 260]

\* body of the while loop
extend_chain(cand2, target, step_tol, st) ==
    extend_with(st,
                nearest_candidate(cand2, st.last + target,
                                  searchsorted(cand2, st.last + target, 0, Len(cand2))),
                step_tol)

\* the passes lo..hi of the while loop
RECURSIVE extend_loop(_, _, _, _, _, _)
extend_loop(cand2, target, step_tol, lo, hi, st) ==
    IF st.done THEN st
    ELSE IF lo = hi THEN extend_chain(cand2, target, step_tol, st)
    ELSE LET mid == (lo + hi) \div 2
         IN extend_loop(cand2, target, step_tol, mid + 1, hi,
                        extend_loop(cand2, target, step_tol, lo, mid, st))

\* the chain built from cand2[start]; every pass of the while loop but the
\* last appends an entry, so at most 260 passes are made
chain_from(cand2, target, step_tol, start) ==
    extend_loop(cand2, target, step_tol, 1, 260,
                [chain |-> <<cand2[start + 1]>>, last |-> cand2[start + 1],
                 done |-> FALSE]).chain

\* faulty variant: a chain as long as best replaces it
keep_longest_LastWins(st, chain) ==
    LET best == IF Len(chain) >= Len(st.best) THEN chain ELSE st.best
    IN [best |-> best, tried |-> st.tried + 1, done |-> Len(best) >= 240]

\* the end of one pass of the loop over start: best, the number of starts
\* tried, and whether the loop is left
keep_longest(st, chain) ==
    LET best == IF Len(chain) > Len(st.best) THEN chain ELSE st.best
    IN [best |-> best, tried |-> st.tried + 1, done |-> Len(best) >= 240]

\* the passes lo..hi of the loop over start
RECURSIVE start_loop(_, _, _, _, _, _)
start_loop(cand2, target, step_tol, lo, hi, st) ==
    IF st.done \/ lo > hi THEN st
    ELSE IF lo = hi THEN keep_longest(st, chain_from(cand2, target, step_tol, lo))
    ELSE LET mid == (lo + hi) \div 2
         IN start_loop(cand2, target, step_tol, mid + 1, hi,
                       start_loop(cand2, target, step_tol, lo, mid, st))

\* the loop over start in range(min(50, len(cand2)))
pick_from(cand2, target) ==
    start_loop(cand2, target, RoundDiv(target, 4), 0, Min2(50, Len(cand2)) - 1,
               [best |-> <<>>, tried |-> 0, done |-> FALSE])

\* int(round(line_s * fs))
line_samples(fs, line) == RoundDiv(line * fs, 10000)

\* _pick_sync_chain(candidates, fs=fs, line_s=line), with the number of
\* starts tried
pick_sync_chain_run(candidates, fs, line) ==
    IF candidates = <<>> THEN [best |-> <<>>, tried |-> 0, done |-> FALSE]
    ELSE pick_from(phase_cluster(sorted_set(candidates), fs, line_samples(fs, line)),
                   line_samples(fs, line))

pick_sync_chain(candidates, fs, line) == pick_sync_chain_run(candidates, fs, line).best

\* faulty variant: every line of the chain is used
first_lines_All(chain) == chain

\* chain[:240]
first_lines(chain) == SubSeq(chain, 1, Min2(240, Len(chain)))

\* the loop over enumerate(chain): row i of y_lines is sampled from
\* sync_start + int(round(y0 * fs)) on; a row never sampled stays zero (<<>>).
\* y_lines has height rows, and an index beyond them raises IndexError.
sample_lines(chain, fs, timings, height) ==
    IF Len(chain) > height
    THEN Err(<<"IndexError: index out of bounds for axis 0", height>>)
    ELSE Ok([row \in 1..height |->
                IF row <= Len(chain)
                THEN <<chain[row] + RoundDiv((timings.sync_s + timings.porch_s) * fs, 10000)>>
                ELSE <<>>])

\* Image.fromarray(rgb): the size is (width, height) of the array
Image_fromarray(rgb, width) == [size |-> <<width, Len(rgb)>>, rgb |-> rgb]

\* decode_robot36 from the sync candidates on: the error raised, or the
\* image saved at out_path
decode_robot36_chain(chain, fs, timings) ==
    IF Len(chain) < 200
    THEN Err(<<"RuntimeError: Could not find a stable Robot36 line sync chain", Len(chain)>>)
    ELSE LET width == 320
             height == 240
             y_lines == sample_lines(first_lines(chain), fs, timings, height)
         IN IF ~y_lines.ok THEN y_lines
            ELSE Ok(Image_fromarray(y_lines.val, width))

decode_robot36(wav, timings) ==
    IF wav.nchannels # 1 \/ wav.sampwidth # 2
    THEN Err(<<"ValueError: Expected 16-bit mono WAV">>)
    ELSE decode_robot36_chain(
             pick_sync_chain(wav.sync_candidates, wav.framerate, line_s(timings)),
             wav.framerate, timings)

(***************************************************************************)
(* Robot36 operations: pick the sync chain of a candidate list; decode a    *)
(* recording.                                                               *)
(***************************************************************************)
SstvSampleRates == { 11025, 48000 }

\* n candidates one line apart from sample 100 on, entry k moved by
\* jitter * ((k mod 3) - 1) samples
Comb(n, fs, jitter) ==
    [k \in 1..n |-> 100 + (k - 1) * line_samples(fs, line_s(Robot36Timings))
                    + jitter * ((k % 3) - 1)]

\* every entry moved by d samples
Shifted(seq, d) == [k \in 1..Len(seq) |-> seq[k] + d]

CombLengths == { 1, 9, 10, 199, 200, 201, 239, 240, 241, 259, 260, 261, 300 }

\* combs; two runs of five lines with a line missing between them; one
\* candidate three lines ahead of a comb; a comb with a candidate half a line
\* off; a comb given backwards and twice
CandidateLists(fs) ==
    LET T == line_samples(fs, line_s(Robot36Timings))
    IN { Comb(n, fs, j) : n \in CombLengths, j \in {0, 30} }
       \cup { <<>>,
              Comb(5, fs, 0) \o Shifted(Comb(5, fs, 0), 6 * T),
              <<100>> \o Shifted(Comb(250, fs, 0), 3 * T),
              Comb(240, fs, 0) \o <<100 + 3 * T + T \div 2>>,
              [k \in 1..400 |-> Comb(200, fs, 0)[201 - ((k + 1) \div 2)]] }

SstvWav(sampwidth, nchannels, framerate, sync_candidates) ==
    [sampwidth |-> sampwidth, nchannels |-> nchannels, framerate |-> framerate,
     sync_candidates |-> sync_candidates]

InitRobot36 ==
    /\ ret = None
    /\ \/ /\ pc = "chain.args"
          /\ args \in { [candidates |-> c, fs |-> fs] :
                          fs \in SstvSampleRates, c \in CandidateLists(48000) \cup CandidateLists(11025) }
       \/ /\ pc = "robot36.args"
          /\ args \in { [wav |-> SstvWav(2, 1, fs, c)] :
                          fs \in SstvSampleRates, c \in CandidateLists(48000) \cup CandidateLists(11025) }
                      \cup { [wav |-> SstvWav(w, ch, 48000, Comb(240, 48000, 0))] :
                               w \in {1, 2}, ch \in {1, 2} }

\* _pick_sync_chain(candidates, fs=fs, line_s=timings.line_s)
PickSyncChain ==
    /\ pc = "chain.args"
    /\ ret' = pick_sync_chain_run(args.candidates, args.fs, line_s(Robot36Timings))
    /\ pc' = "chain.done"
    /\ UNCHANGED args

\* what a call of decode_robot36 leaves behind: its outcome and the files
\* written at out_path (the image is saved by the last statement only)
robot36_outcome(result) ==
    [result |-> result, written |-> IF result.ok THEN <<result.val>> ELSE <<>>]

\* decode_robot36(wav_path, out_path=out)
DecodeRobot36 ==
    /\ pc = "robot36.args"
    /\ ret' = robot36_outcome(decode_robot36(args.wav, Robot36Timings))
    /\ pc' = "robot36.done"
    /\ UNCHANGED args

NextRobot36 == PickSyncChain \/ DecodeRobot36

SpecRobot36 == InitRobot36 /\ [][NextRobot36]_vars

(***************************************************************************)
(* Robot36 claims                                                          *)
(***************************************************************************)
\* C24: decode_robot36 fails with a descriptive error and writes no image
\* whenever the picked sync chain has fewer than 200 entries; whenever it
\* succeeds (chain of 200 or more entries, including 200..239 where fewer
\* than 240 lines are sampled) the image it writes is exactly 320 pixels wide
\* and 240 pixels high, built from at most the first 240 chain entries.  (For
\* a 16-bit mono recording.)
C24_ChainThreshold ==
    (pc = "robot36.done" /\ args.wav.nchannels = 1 /\ args.wav.sampwidth = 2)
    => LET chain == pick_sync_chain(args.wav.sync_candidates, args.wav.framerate,
                                    line_s(Robot36Timings))
       IN IF Len(chain) < 200
          THEN /\ ~ret.result.ok
               /\ ret.result.err
                     = <<"RuntimeError: Could not find a stable Robot36 line sync chain",
                         Len(chain)>>
               /\ ret.written = <<>>
          ELSE /\ ret.result.ok
               /\ ret.written = <<ret.result.val>>
               /\ ret.result.val.size = <<320, 240>>
               /\ \A row \in 1..240 :
                     IF row <= Len(chain)
                     THEN /\ ret.result.val.rgb[row] # <<>>
                          /\ ret.result.val.rgb[row][1] >= chain[row]
                          /\ row < Len(chain) => ret.result.val.rgb[row][1] < chain[row + 1]
                     ELSE ret.result.val.rgb[row] = <<>>

\* a chain of 200 lines: the image is written with its last 40 rows never
\* sampled
C24_Witness ==
    /\ pc = "robot36.done"
    /\ ret.result.ok
    /\ ret.written # <<>>
    /\ ret.written[1].rgb[200] # <<>>
    /\ ret.written[1].rgb[201] = <<>>

\* chain ch is a greedy extension from its first entry: each next entry is a
\* candidate nearest to one line after the entry before it, later than it and
\* within step_tol; the chain ends at cap entries, or where no candidate is
\* within step_tol of the next line
C27_Greedy(cand2, target, step_tol, ch, cap) ==
    /\ Len(ch) \in 1..cap
    /\ \A i \in 1..(Len(ch) - 1) :
          /\ ch[i + 1] > ch[i]
          /\ Abs(ch[i + 1] - (ch[i] + target)) <= step_tol
          /\ \E k \in 1..Len(cand2) : cand2[k] = ch[i + 1]
          /\ \A k \in 1..Len(cand2) :
                Abs(cand2[k] - (ch[i] + target)) >= Abs(ch[i + 1] - (ch[i] + target))
    /\ Len(ch) < cap
       => \A k \in 1..Len(cand2) : Abs(cand2[k] - (ch[Len(ch)] + target)) > step_tol

\* lens[s + 1] being the length of the chain started at cand2[s] for the
\* starts tried: the search went on while no chain had 240 entries and over
\* at most 50 starts, and best is the first of the longest chains
C27_FirstLongest(cand2, target, step_tol, lens, run) ==
    /\ Len(lens) \in 1..Min2(50, Len(cand2))
    /\ \A s \in 1..(Len(lens) - 1) : lens[s] < 240
    /\ Len(lens) < Min2(50, Len(cand2)) => lens[Len(lens)] >= 240
    /\ \E s \in 1..Len(lens) :
          /\ run.best = chain_from(cand2, target, step_tol, s - 1)
          /\ \A u \in 1..Len(lens) : lens[u] <= lens[s]
          /\ \A u \in 1..(s - 1) : lens[u] < lens[s]

C27_Holds(cand2, target, step_tol, run, cap) ==
    /\ C27_Greedy(cand2, target, step_tol, run.best, cap)
    /\ C27_FirstLongest(cand2, target, step_tol,
                        [s \in 1..run.tried |->
                            Len(chain_from(cand2, target, step_tol, s - 1))] \o <<>>,
                        run)

\* C27 as stated: greedy extension of a chain stops as soon as the chain
\* reaches 240 entries, and the search over start candidates (at most the
\* first 50) stops once a chain of at least 240 entries has been found; the
\* chain returned by _pick_sync_chain is the longest one built, the
\* earliest-started winning ties.
C27_Original ==
    (pc = "chain.done" /\ args.candidates # <<>>)
    => C27_Holds(phase_cluster(sorted_set(args.candidates), args.fs,
                               line_samples(args.fs, line_s(Robot36Timings))),
                 line_samples(args.fs, line_s(Robot36Timings)),
                 RoundDiv(line_samples(args.fs, line_s(Robot36Timings)), 4),
                 ret, 240)

\* C27, amended: greedy extension of a chain stops as soon as the chain
\* reaches 260 entries, and the search over start candidates (at most the
\* first 50) stops once a chain of at least 240 entries has been found; the
\* chain returned by _pick_sync_chain is the longest one built, the
\* earliest-started winning ties.
C27_Chaining ==
    (pc = "chain.done" /\ args.candidates # <<>>)
    => C27_Holds(phase_cluster(sorted_set(args.candidates), args.fs,
                               line_samples(args.fs, line_s(Robot36Timings))),
                 line_samples(args.fs, line_s(Robot36Timings)),
                 RoundDiv(line_samples(args.fs, line_s(Robot36Timings)), 4),
                 ret, 260)

\* 300 candidates one line apart: the first start gives a chain of 260
\* entries and the search ends there
C27_Witness ==
    /\ pc = "chain.done"
    /\ Len(args.candidates) = 300
    /\ Len(ret.best) = 260
    /\ ret.tried = 1

=============================================================================
